---- MODULE Spec2Model ----
(***************************************************************************)
(* State-machine model of the Sedly node core: the persistent chain store  *)
(* (core/src/storage.rs), the transaction and block model                  *)
(* (core/src/transaction.rs, core/src/block.rs), the ABCI block-assembly  *)
(* application (consensus/src/abci.rs), the difficulty controller          *)
(* (core/src/difficulty.rs), the miner (core/src/mining.rs) and the        *)
(* consensus state manager (consensus/src/state.rs).                       *)
(*                                                                         *)
(* Representation.  Byte strings are sequences of naturals.  SHA-256 is a  *)
(* collision-free tagging of its preimage, so a digest is a sequence that  *)
(* starts with 1 and the all-zero hash [0u8; 32] is the sequence <<0>>.    *)
(* A digest embedded in a serialization carries its length in front (the   *)
(* digests of the model differ in length, the 32-byte arrays of the code   *)
(* do not).  Integers wider than 31 bits are kept exact: a 64-bit amount   *)
(* is a pair of limbs (hi, lo) of 20 bits for lo, and the 32-bit value     *)
(* 0xFFFFFFFF is written as its two's complement reading, -1.              *)
(***************************************************************************)
EXTENDS Integers, Sequences, FiniteSets, TLC

VARIABLES
    db,             \* BlockchainDB: the five column families
    chain_state,    \* SedlyApp.chain_state
    current_block,  \* SedlyApp.current_block: <<>> (None) or <<builder>> (Some)
    req,            \* the request of the last ABCI call
    resp,           \* the response of the last ABCI call
    commit_pc,      \* the commit in progress: <<>> (none), or <<[builder, block]>>
                    \* once store_block has returned and before the chain
                    \* state is updated
    check_pc,       \* the check_tx in progress: <<>> (none), or <<[tx, height, k]>>
                    \* while it holds the lock of chain_state and has input k
                    \* of tx to read next
    miner,          \* a Miner (core/src/mining.rs), its call in progress, the
                    \* worker threads and the result channel of that call
    state_manager   \* a StateManager (consensus/src/state.rs) and the
                    \* update_state calls in progress on it

vars == <<db, chain_state, current_block, req, resp, commit_pc, check_pc, miner,
          state_manager>>

(***************************************************************************)
(* Bounds of the model.                                                    *)
(***************************************************************************)
\* most blocks the store holds besides genesis
MaxBlocks == 3
\* most blocks besides genesis under the block-replaying driver
MaxReplayBlocks == 5
\* most transactions DeliverTx adds to one builder
MaxDelivered == 1
\* low driver heights 1..MaxLowHeight and mature heights 101..100+MaxLowHeight
MaxLowHeight == 1
\* wall-clock readings: MaxClock block intervals after genesis
MaxClock == 1

(***************************************************************************)
(* Program constants.                                                      *)
(***************************************************************************)
PROTOCOL_VERSION == 1
TARGET_BLOCK_TIME == 120
DIFFICULTY_ADJUSTMENT_INTERVAL == 144
HALVING_INTERVAL == 210000
COINBASE_MATURITY == 100
GENESIS_TIMESTAMP == 1704067200
\* 0x1d00ffff
GENESIS_BITS == 486604799
\* 0xffffffff, the vout of the null outpoint and the default sequence
MAX_U32 == -1

LIMB == 2^20
U64(hi, lo) == [hi |-> hi, lo |-> lo]
\* 50_00000000 = 4768 * 2^20 + 389632
INITIAL_BLOCK_REWARD == U64(4768, 389632)
AmountIsZero(v) == v.hi = 0 /\ v.lo = 0

\* v >> k on a two-limb amount, 0 <= k < 64
ShiftRight(v, k) ==
    IF k >= 51 THEN U64(0, 0)
    ELSE IF k >= 20 THEN U64(0, v.hi \div (2^(k - 20)))
    ELSE U64(v.hi \div (2^k), (v.lo \div (2^k)) + (v.hi % (2^k)) * (2^(20 - k)))

(***************************************************************************)
(* Hashing.                                                                *)
(***************************************************************************)
ZERO_HASH == <<0>>
Sha256(bytes) == <<1>> \o bytes
DoubleSha256(bytes) == Sha256(Sha256(bytes))

\* u64::to_le_bytes / to_be_bytes for the heights of the model (< 2^31)
U64LE(n) == <<n % 256, (n \div 256) % 256, (n \div 65536) % 256,
              (n \div 16777216) % 256, 0, 0, 0, 0>>
U64BE(n) == <<0, 0, 0, 0, (n \div 16777216) % 256, (n \div 65536) % 256,
              (n \div 256) % 256, n % 256>>

\* b"Sedly Genesis"
COINBASE_BANNER == <<83, 101, 100, 108, 121, 32, 71, 101, 110, 101, 115, 105, 115>>
\* b"Sedly - Fair Launch Blockchain"
GENESIS_MESSAGE == <<83, 101, 100, 108, 121, 32, 45, 32, 70, 97, 105, 114, 32,
                     76, 97, 117, 110, 99, 104, 32, 66, 108, 111, 99, 107, 99,
                     104, 97, 105, 110>>
\* b"sedly_validator"
BENEFICIARY == <<115, 101, 100, 108, 121, 95, 118, 97, 108, 105, 100, 97, 116, 111, 114>>

(***************************************************************************)
(* Transactions (core/src/transaction.rs).                                 *)
(***************************************************************************)
OutPoint(txid, vout) == [txid |-> txid, vout |-> vout]
NULL_OUTPOINT == OutPoint(ZERO_HASH, MAX_U32)
TxInput(previous_output, script_sig) ==
    [previous_output |-> previous_output, script_sig |-> script_sig, sequence |-> MAX_U32]
TxOutput(value, asset_id, script_pubkey) ==
    [value |-> value, asset_id |-> asset_id, script_pubkey |-> script_pubkey]
Transaction(inputs, outputs, lock_time) ==
    [version |-> PROTOCOL_VERSION, inputs |-> inputs, outputs |-> outputs,
     lock_time |-> lock_time]

\* bincode of the fields, in declaration order
SerBytes(b) == <<Len(b)>> \o b
SerHash(h) == <<Len(h)>> \o h
SerInput(i) ==
    SerHash(i.previous_output.txid) \o <<i.previous_output.vout>>
        \o SerBytes(i.script_sig) \o <<i.sequence>>
SerOutput(o) ==
    <<o.value.hi, o.value.lo>> \o SerHash(o.asset_id) \o SerBytes(o.script_pubkey)

RECURSIVE SerInputs(_)
SerInputs(s) == IF s = <<>> THEN <<>> ELSE SerInput(Head(s)) \o SerInputs(Tail(s))
RECURSIVE SerOutputs(_)
SerOutputs(s) == IF s = <<>> THEN <<>> ELSE SerOutput(Head(s)) \o SerOutputs(Tail(s))

tx_serialize(tx) ==
    <<tx.version, Len(tx.inputs)>> \o SerInputs(tx.inputs)
        \o <<Len(tx.outputs)>> \o SerOutputs(tx.outputs) \o <<tx.lock_time>>

\* Transaction::hash: double SHA-256 of the serialization
tx_hash(tx) == DoubleSha256(tx_serialize(tx))

\* Transaction::size: the byte length of the bincode serialization
\* (u32: 4, u64: 8, [u8; 32]: 32, Vec: 8 + elements)
RECURSIVE SumScriptSig(_)
SumScriptSig(s) ==
    IF s = <<>> THEN 0 ELSE 48 + Len(Head(s).script_sig) + SumScriptSig(Tail(s))
RECURSIVE SumScriptPubkey(_)
SumScriptPubkey(s) ==
    IF s = <<>> THEN 0 ELSE 48 + Len(Head(s).script_pubkey) + SumScriptPubkey(Tail(s))
tx_size(tx) == 28 + SumScriptSig(tx.inputs) + SumScriptPubkey(tx.outputs)

\* Transaction::is_coinbase
is_coinbase(tx) ==
    /\ Len(tx.inputs) = 1
    /\ tx.inputs[1].previous_output.txid = ZERO_HASH
    /\ tx.inputs[1].previous_output.vout = MAX_U32

\* Transaction::is_valid (structural)
tx_is_valid(tx) ==
    /\ tx.inputs # <<>>
    /\ ~(~is_coinbase(tx) /\ tx.outputs = <<>>)
    /\ \A k \in 1..Len(tx.outputs) : ~AmountIsZero(tx.outputs[k].value)

\* Transaction::create_coinbase_script
create_coinbase_script(block_height) ==
    <<8>> \o U64LE(block_height) \o COINBASE_BANNER

\* Transaction::coinbase
coinbase(reward_address, block_height, reward) ==
    Transaction(
        <<TxInput(NULL_OUTPOINT, create_coinbase_script(block_height))>>,
        <<TxOutput(reward, ZERO_HASH, reward_address)>>,
        0)

\* Transaction::genesis
genesis_tx == Transaction(<<TxInput(NULL_OUTPOINT, GENESIS_MESSAGE)>>, <<>>, 0)

(***************************************************************************)
(* bincode::deserialize::<Transaction>: a parser of the serialization.     *)
(* Each step yields [ok, val, rest]; trailing bytes are allowed.           *)
(***************************************************************************)
ParseFail == [ok |-> FALSE, val |-> <<>>, rest |-> <<>>]
ParseOk(v, r) == [ok |-> TRUE, val |-> v, rest |-> r]
Drop(s, n) == SubSeq(s, n + 1, Len(s))

ParseInt(s) == IF Len(s) >= 1 THEN ParseOk(s[1], Drop(s, 1)) ELSE ParseFail
ParseVecU8(s) ==
    IF Len(s) >= 1 /\ s[1] >= 0 /\ Len(s) >= 1 + s[1]
    THEN ParseOk(SubSeq(s, 2, 1 + s[1]), Drop(s, 1 + s[1]))
    ELSE ParseFail
ParseHash(s) ==
    IF Len(s) >= 1 /\ s[1] >= 1 /\ Len(s) >= 1 + s[1]
    THEN ParseOk(SubSeq(s, 2, 1 + s[1]), Drop(s, 1 + s[1]))
    ELSE ParseFail

\* the ? of a parsing step: continue with K on success, fail otherwise
Bind(a, K(_)) == IF a.ok THEN K(a) ELSE ParseFail
\* let v be a value in F
With(v, F(_)) == F(v)
\* let v, computed first, be a value in F
Eager(v, F(_)) == CHOOSE r \in {F(x) : x \in {v}} : TRUE

ParseInput(s) ==
    Bind(ParseHash(s), LAMBDA a :
    Bind(ParseInt(a.rest), LAMBDA b :
    Bind(ParseVecU8(b.rest), LAMBDA c :
    Bind(ParseInt(c.rest), LAMBDA d :
    ParseOk([previous_output |-> OutPoint(a.val, b.val), script_sig |-> c.val,
             sequence |-> d.val], d.rest)))))

ParseOutput(s) ==
    Bind(ParseInt(s), LAMBDA a :
    Bind(ParseInt(a.rest), LAMBDA b :
    Bind(ParseHash(b.rest), LAMBDA c :
    Bind(ParseVecU8(c.rest), LAMBDA d :
    ParseOk(TxOutput(U64(a.val, b.val), c.val, d.val), d.rest)))))

\* a Vec length: a non-negative count
ParseLen(s) == IF Len(s) >= 1 /\ s[1] >= 0 THEN ParseOk(s[1], Drop(s, 1)) ELSE ParseFail

RECURSIVE ParseInputs(_, _)
ParseInputs(s, n) ==
    IF n = 0 THEN ParseOk(<<>>, s) ELSE
    Bind(ParseInput(s), LAMBDA a :
    Bind(ParseInputs(a.rest, n - 1), LAMBDA b :
    ParseOk(<<a.val>> \o b.val, b.rest)))

RECURSIVE ParseOutputs(_, _)
ParseOutputs(s, n) ==
    IF n = 0 THEN ParseOk(<<>>, s) ELSE
    Bind(ParseOutput(s), LAMBDA a :
    Bind(ParseOutputs(a.rest, n - 1), LAMBDA b :
    ParseOk(<<a.val>> \o b.val, b.rest)))

ParseTransaction(s) ==
    Bind(ParseInt(s), LAMBDA v :
    Bind(ParseLen(v.rest), LAMBDA n :
    Bind(ParseInputs(n.rest, n.val), LAMBDA i :
    Bind(ParseLen(i.rest), LAMBDA m :
    Bind(ParseOutputs(m.rest, m.val), LAMBDA o :
    Bind(ParseInt(o.rest), LAMBDA l :
    ParseOk([version |-> v.val, inputs |-> i.val, outputs |-> o.val,
             lock_time |-> l.val], l.rest)))))))

tx_deserialize(raw) == ParseTransaction(raw)

(***************************************************************************)
(* Blocks (core/src/block.rs).                                             *)
(***************************************************************************)
BlockHeader(version, previous_hash, merkle_root, timestamp, bits, nonce, height) ==
    [version |-> version, previous_hash |-> previous_hash,
     merkle_root |-> merkle_root, timestamp |-> timestamp, bits |-> bits,
     nonce |-> nonce, height |-> height]

header_serialize(h) ==
    <<h.version>> \o SerHash(h.previous_hash) \o SerHash(h.merkle_root)
        \o <<h.timestamp, h.bits, h.nonce, h.height>>

\* BlockHeader::hash
header_hash(h) == DoubleSha256(header_serialize(h))

\* one level of the Merkle tree: chunks(2), the last odd hash paired with itself
RECURSIVE MerkleLevel(_)
MerkleLevel(hashes) ==
    IF hashes = <<>> THEN <<>>
    ELSE IF Len(hashes) = 1
         THEN <<Sha256(SerHash(hashes[1]) \o SerHash(hashes[1]))>>
         ELSE <<Sha256(SerHash(hashes[1]) \o SerHash(hashes[2]))>>
                  \o MerkleLevel(Drop(hashes, 2))

RECURSIVE MerkleCollapse(_)
MerkleCollapse(hashes) ==
    IF Len(hashes) > 1 THEN MerkleCollapse(MerkleLevel(hashes)) ELSE hashes[1]

\* Block::calculate_merkle_root
calculate_merkle_root(transactions) ==
    IF transactions = <<>> THEN ZERO_HASH
    ELSE MerkleCollapse([k \in 1..Len(transactions) |-> tx_hash(transactions[k])])

\* a block whose Merkle root covers the first transaction only
Block_new_coinbase_root(previous_hash, transactions, bits, height, now) ==
    [header |-> BlockHeader(PROTOCOL_VERSION, previous_hash,
                            calculate_merkle_root(SubSeq(transactions, 1, 1)), now,
                            bits, 0, height),
     transactions |-> transactions]

\* Block::new; now is BlockHeader::current_timestamp()
Block_new(previous_hash, transactions, bits, height, now) ==
    [header |-> BlockHeader(PROTOCOL_VERSION, previous_hash,
                            calculate_merkle_root(transactions), now, bits, 0, height),
     transactions |-> transactions]

\* Block::hash
block_hash(block) == header_hash(block.header)

\* Block::genesis
genesis_block ==
    [header |-> BlockHeader(PROTOCOL_VERSION, ZERO_HASH, tx_hash(genesis_tx),
                            GENESIS_TIMESTAMP, GENESIS_BITS, 0, 0),
     transactions |-> <<genesis_tx>>]

RECURSIVE SerTransactions(_)
SerTransactions(s) ==
    IF s = <<>> THEN <<>> ELSE tx_serialize(Head(s)) \o SerTransactions(Tail(s))

\* bincode::serialize(block)
block_serialize(block) ==
    header_serialize(block.header) \o <<Len(block.transactions)>>
        \o SerTransactions(block.transactions)

ParseHeader(s) ==
    Bind(ParseInt(s), LAMBDA v :
    Bind(ParseHash(v.rest), LAMBDA p :
    Bind(ParseHash(p.rest), LAMBDA m :
    IF Len(m.rest) < 4 THEN ParseFail ELSE
    ParseOk(BlockHeader(v.val, p.val, m.val, m.rest[1], m.rest[2], m.rest[3],
                        m.rest[4]), Drop(m.rest, 4)))))

RECURSIVE ParseTransactions(_, _)
ParseTransactions(s, n) ==
    IF n = 0 THEN ParseOk(<<>>, s) ELSE
    Bind(ParseTransaction(s), LAMBDA a :
    Bind(ParseTransactions(a.rest, n - 1), LAMBDA b :
    ParseOk(<<a.val>> \o b.val, b.rest)))

\* bincode::deserialize::<Block>
block_deserialize(bytes) ==
    Bind(ParseHeader(bytes), LAMBDA h :
    Bind(ParseLen(h.rest), LAMBDA n :
    Bind(ParseTransactions(n.rest, n.val), LAMBDA t :
    ParseOk([header |-> h.val, transactions |-> t.val], t.rest))))

(***************************************************************************)
(* The chain store (core/src/storage.rs).  A column family is a function   *)
(* from keys to value bytes; a WriteBatch is a sequence of put and delete  *)
(* operations that DB::write applies in order, all or none.                *)
(***************************************************************************)
CF_BLOCKS == "blocks"
CF_BLOCK_INDEX == "block_index"
CF_UTXO == "utxo"
CF_METADATA == "metadata"
CF_TX_INDEX == "tx_index"
META_BEST_BLOCK == "best_block_hash"
META_HEIGHT == "blockchain_height"
META_GENESIS_HASH == "genesis_hash"

\* BlockchainDB::open on an empty directory
EmptyDB ==
    [blocks |-> <<>>, block_index |-> <<>>, utxo |-> <<>>, metadata |-> <<>>,
     tx_index |-> <<>>]

CfPut(f, k, v) == [x \in (DOMAIN f) \cup {k} |-> IF x = k THEN v ELSE f[x]]
CfDelete(f, k) == [x \in (DOMAIN f) \ {k} |-> f[x]]

BatchPut(cf, key, value) == [op |-> "put", cf |-> cf, key |-> key, value |-> value]
BatchDelete(cf, key) == [op |-> "delete", cf |-> cf, key |-> key, value |-> <<>>]

ApplyOp(d, o) ==
    [d EXCEPT ![o.cf] = IF o.op = "put" THEN CfPut(@, o.key, o.value)
                                        ELSE CfDelete(@, o.key)]

RECURSIVE ApplyBatch(_, _)
ApplyBatch(d, batch) ==
    IF batch = <<>> THEN d ELSE ApplyBatch(ApplyOp(d, Head(batch)), Tail(batch))

\* a store that is not atomic: a refused batch leaves its first operation applied
db_write_torn(d, batch, write_ok) ==
    IF write_ok THEN ApplyBatch(d, batch) ELSE ApplyBatch(d, SubSeq(batch, 1, 1))

\* DB::write(batch): atomic; write_ok is whether the backing store accepts it
db_write(d, batch, write_ok) == IF write_ok THEN ApplyBatch(d, batch) ELSE d

\* BlockchainDB::outpoint_key: txid followed by the vout
outpoint_key(outpoint) == outpoint.txid \o <<outpoint.vout>>

\* bincode of UtxoEntry and TxLocation
UtxoEntry(output, block_height, coinbase_flag) ==
    [output |-> output, block_height |-> block_height, is_coinbase |-> coinbase_flag]
utxo_serialize(e) ==
    SerOutput(e.output) \o <<e.block_height, IF e.is_coinbase THEN 1 ELSE 0>>
utxo_deserialize(bytes) ==
    Bind(ParseOutput(bytes), LAMBDA o :
    IF Len(o.rest) < 2 \/ o.rest[2] \notin {0, 1} THEN ParseFail ELSE
    ParseOk(UtxoEntry(o.val, o.rest[1], o.rest[2] = 1), Drop(o.rest, 2)))
TxLocation(hash, tx_index, block_height) ==
    [block_hash |-> hash, tx_index |-> tx_index, block_height |-> block_height]
location_serialize(l) == SerHash(l.block_hash) \o <<l.tx_index, l.block_height>>

\* the delete operations of the inputs of one transaction
InputDeletes(tx) ==
    [k \in 1..Len(tx.inputs) |->
        BatchDelete(CF_UTXO, outpoint_key(tx.inputs[k].previous_output))]

\* the put operations of the outputs of one transaction
OutputPuts(tx, block_height) ==
    [k \in 1..Len(tx.outputs) |->
        BatchPut(CF_UTXO, outpoint_key(OutPoint(tx_hash(tx), k - 1)),
                 utxo_serialize(UtxoEntry(tx.outputs[k], block_height,
                                          is_coinbase(tx))))]

\* an update that never deletes the spent entries
update_utxo_keep_inputs(tx, hash, block_height, tx_index) ==
    <<BatchPut(CF_TX_INDEX, tx_hash(tx),
               location_serialize(TxLocation(hash, tx_index, block_height)))>>
        \o OutputPuts(tx, block_height)

\* BlockchainDB::update_utxo_for_transaction: the operations it adds to the batch
update_utxo_for_transaction(tx, hash, block_height, tx_index) ==
    <<BatchPut(CF_TX_INDEX, tx_hash(tx),
               location_serialize(TxLocation(hash, tx_index, block_height)))>>
        \o (IF ~is_coinbase(tx) THEN InputDeletes(tx) ELSE <<>>)
        \o OutputPuts(tx, block_height)

\* BlockchainDB::update_best_block
update_best_block(hash, height) ==
    <<BatchPut(CF_METADATA, META_BEST_BLOCK, hash),
      BatchPut(CF_METADATA, META_HEIGHT, U64BE(height))>>

RECURSIVE UtxoUpdates(_, _, _, _)
UtxoUpdates(transactions, hash, height, k) ==
    IF k > Len(transactions) THEN <<>>
    ELSE update_utxo_for_transaction(transactions[k], hash, height, k - 1)
             \o UtxoUpdates(transactions, hash, height, k + 1)

\* the WriteBatch store_block builds
StoreBlockBatch(block) ==
    LET hash == block_hash(block)
        height == block.header.height
    IN  <<BatchPut(CF_BLOCKS, hash, block_serialize(block)),
          BatchPut(CF_BLOCK_INDEX, U64BE(height), hash)>>
            \o UtxoUpdates(block.transactions, hash, height, 1)
            \o update_best_block(hash, height)

\* BlockchainDB::store_block: [ok, db]
store_block(d, block, write_ok) ==
    [ok |-> write_ok, db |-> db_write(d, StoreBlockBatch(block), write_ok)]

\* Result<Option<T>>: err, or some = <<>> (None) / <<v>> (Some(v))
Found(v) == [err |-> FALSE, some |-> <<v>>]
NotFound == [err |-> FALSE, some |-> <<>>]
ReadError == [err |-> TRUE, some |-> <<>>]

\* BlockchainDB::get_block
get_block(d, hash) ==
    IF hash \notin DOMAIN d.blocks THEN NotFound
    ELSE With(block_deserialize(d.blocks[hash]), LAMBDA p :
              IF p.ok THEN Found(p.val) ELSE ReadError)

\* BlockchainDB::get_block_by_height, the height given as height.to_be_bytes()
get_block_by_height_key(d, height_key) ==
    IF height_key \notin DOMAIN d.block_index THEN NotFound
    ELSE get_block(d, d.block_index[height_key])

\* BlockchainDB::get_block_by_height
get_block_by_height(d, height) == get_block_by_height_key(d, U64BE(height))

\* BlockchainDB::get_utxo
get_utxo(d, outpoint) ==
    IF outpoint_key(outpoint) \notin DOMAIN d.utxo THEN NotFound
    ELSE With(utxo_deserialize(d.utxo[outpoint_key(outpoint)]), LAMBDA p :
              IF p.ok THEN Found(p.val) ELSE ReadError)

\* a maturity test that asks for one block more
is_utxo_spendable_strict(d, outpoint, current_height) ==
    With(get_utxo(d, outpoint), LAMBDA u :
    IF u.err THEN [err |-> TRUE, val |-> FALSE]
    ELSE IF u.some = <<>> THEN [err |-> FALSE, val |-> FALSE]
    ELSE IF u.some[1].is_coinbase
         THEN [err |-> FALSE,
               val |-> current_height > u.some[1].block_height + COINBASE_MATURITY]
         ELSE [err |-> FALSE, val |-> TRUE])

\* BlockchainDB::is_utxo_spendable: [err, val]
is_utxo_spendable(d, outpoint, current_height) ==
    With(get_utxo(d, outpoint), LAMBDA u :
    IF u.err THEN [err |-> TRUE, val |-> FALSE]
    ELSE IF u.some = <<>> THEN [err |-> FALSE, val |-> FALSE]
    ELSE IF u.some[1].is_coinbase
         THEN [err |-> FALSE,
               val |-> current_height >= u.some[1].block_height + COINBASE_MATURITY]
         ELSE [err |-> FALSE, val |-> TRUE])

U64FromBE(b) == b[5] * 16777216 + b[6] * 65536 + b[7] * 256 + b[8]

\* BlockchainDB::get_metadata
get_metadata(d) ==
    [best_block_hash |->
        IF META_BEST_BLOCK \in DOMAIN d.metadata THEN d.metadata[META_BEST_BLOCK]
        ELSE ZERO_HASH,
     height |->
        IF META_HEIGHT \in DOMAIN d.metadata THEN U64FromBE(d.metadata[META_HEIGHT])
        ELSE 0,
     total_work |-> 0,
     genesis_hash |->
        IF META_GENESIS_HASH \in DOMAIN d.metadata THEN d.metadata[META_GENESIS_HASH]
        ELSE ZERO_HASH]

\* an initialization that does not look at the height
initialize_without_guard(d, genesis) ==
    db_write(store_block(d, genesis, TRUE).db,
             <<BatchPut(CF_METADATA, META_GENESIS_HASH, block_hash(genesis))>>,
             TRUE)

\* BlockchainDB::initialize_with_genesis (both writes accepted)
initialize_with_genesis(d, genesis) ==
    IF get_metadata(d).height > 0 THEN d
    ELSE db_write(store_block(d, genesis, TRUE).db,
                  <<BatchPut(CF_METADATA, META_GENESIS_HASH, block_hash(genesis))>>,
                  TRUE)

(***************************************************************************)
(* The ABCI application (consensus/src/abci.rs).                           *)
(***************************************************************************)
ChainState(height, best_block_hash, total_transactions, current_bits) ==
    [height |-> height, best_block_hash |-> best_block_hash,
     total_transactions |-> total_transactions, current_bits |-> current_bits]

BlockBuilder(transactions, height, previous_hash, timestamp, bits) ==
    [transactions |-> transactions, height |-> height,
     previous_hash |-> previous_hash, timestamp |-> timestamp, bits |-> bits]

None == <<>>
Some(v) == <<v>>

\* an ABCI call: the request, and for commit what the call reads from its
\* environment (the clock of Block::new, whether the store accepts the batch)
\* and the 32 bytes the double SHA-256 of the sealed header comes to
Request(op, tx, height, time, path) ==
    [op |-> op, tx |-> tx, height |-> height, time |-> time, path |-> path,
     write_ok |-> TRUE, digest |-> <<>>]
RequestCommit(now, write_ok, digest) ==
    [op |-> "commit", tx |-> <<>>, height |-> 0, time |-> now, path |-> <<>>,
     write_ok |-> write_ok, digest |-> digest]

Response(op, code, data, log, gas_wanted, gas_used, codespace, height) ==
    [op |-> op, code |-> code, data |-> data, log |-> log,
     gas_wanted |-> gas_wanted, gas_used |-> gas_used, codespace |-> codespace,
     height |-> height]

\* DifficultyAdjuster::genesis_difficulty
genesis_difficulty == GENESIS_BITS

\* SedlyApp::new over the store d: [db, chain_state]
new(d) ==
    IF get_metadata(d).height = 0
    THEN [db |-> initialize_with_genesis(d, genesis_block),
          chain_state |-> ChainState(0, block_hash(genesis_block), 1,
                                     genesis_difficulty)]
    ELSE [db |-> d,
          chain_state |-> ChainState(get_metadata(d).height,
                                     get_metadata(d).best_block_hash, 0,
                                     genesis_difficulty)]

TxCheckResult(valid, error, gas_used) ==
    [valid |-> valid, error |-> error, gas_used |-> gas_used]

\* the loop of check_transaction over the inputs, from input k on
RECURSIVE CheckInputs(_, _, _, _)
CheckInputs(d, height, tx, k) ==
    IF k > Len(tx.inputs) THEN TxCheckResult(TRUE, "", tx_size(tx))
    ELSE With(is_utxo_spendable(d, tx.inputs[k].previous_output, height), LAMBDA r :
         IF r.err THEN TxCheckResult(FALSE, "Database error", 0)
         ELSE IF ~r.val THEN TxCheckResult(FALSE, "UTXO not found or not spendable", 0)
         ELSE CheckInputs(d, height, tx, k + 1))

\* a check that lets a coinbase through to the test of its inputs
check_transaction_no_coinbase(d, cs, tx) ==
    IF ~tx_is_valid(tx)
    THEN TxCheckResult(FALSE, "Invalid transaction structure", 0)
    ELSE CheckInputs(d, cs.height, tx, 1)

\* SedlyApp::check_transaction
check_transaction(d, cs, tx) ==
    IF ~tx_is_valid(tx)
    THEN TxCheckResult(FALSE, "Invalid transaction structure", 0)
    ELSE IF is_coinbase(tx)
    THEN TxCheckResult(FALSE, "Coinbase transactions not allowed in mempool", 0)
    ELSE CheckInputs(d, cs.height, tx, 1)

\* a reward that never halves
calculate_block_reward_flat(height) == INITIAL_BLOCK_REWARD

\* SedlyApp::calculate_block_reward
calculate_block_reward(height) ==
    LET halvings == height \div HALVING_INTERVAL IN
    IF halvings >= 64 THEN U64(0, 0) ELSE ShiftRight(INITIAL_BLOCK_REWARD, halvings)

\* a coinbase that always carries the script of height 0
create_coinbase_height0(height, beneficiary) ==
    coinbase(beneficiary, 0, calculate_block_reward(height))

\* SedlyApp::create_coinbase
create_coinbase(height, beneficiary) ==
    coinbase(beneficiary, height, calculate_block_reward(height))

\* the blocks update_difficulty reads: heights start..height-1 that the store has
RecentBlocks(d, h, height) ==
    With(SelectSeq([k \in 1..(height - h) |-> get_block_by_height(d, h + k - 1)],
                   LAMBDA b : ~b.err /\ b.some # <<>>),
         LAMBDA found : [k \in 1..Len(found) |-> found[k].some[1]])

(***************************************************************************)
(* Compact targets (core/src/block.rs) and the difficulty controller       *)
(* (core/src/difficulty.rs).  A target is a sequence of 32 bytes; index k  *)
(* of the code is position k + 1 here.  An operation that panics (index    *)
(* out of range, subtraction overflow) yields panic = TRUE.                *)
(***************************************************************************)
ZeroTarget == [k \in 1..32 |-> 0]
Byte(n, k) == (n \div (2^(8 * k))) % 256

\* bits_to_target: [panic, target]
bits_to_target(bits) ==
    LET exponent == bits \div (2^24)
        mantissa == bits % (2^24)
    IN  IF exponent <= 3
        THEN LET m == mantissa \div (2^(8 * (3 - exponent))) IN
             [panic |-> FALSE,
              target |-> [ZeroTarget EXCEPT ![29] = Byte(m, 0), ![30] = Byte(m, 1),
                                            ![31] = Byte(m, 2)]]
        ELSE IF exponent > 32
        THEN [panic |-> TRUE, target |-> ZeroTarget]
        ELSE [panic |-> FALSE,
              target |-> [ZeroTarget EXCEPT ![33 - exponent] = Byte(mantissa, 0),
                                            ![34 - exponent] = Byte(mantissa, 1),
                                            ![35 - exponent] = Byte(mantissa, 2)]]

\* the size target_to_bits finds: 32 - (index of the first non-zero byte)
RECURSIVE TargetSize(_, _)
TargetSize(target, size) ==
    IF size > 0 /\ target[32 - size + 1] = 0 THEN TargetSize(target, size - 1) ELSE size

\* target_to_bits: [panic, bits]
target_to_bits(target) ==
    LET size == TargetSize(target, 32) IN
    IF size = 0 THEN [panic |-> FALSE, bits |-> 0]
    ELSE IF size < 3 THEN [panic |-> TRUE, bits |-> 0]
    ELSE [panic |-> FALSE,
          bits |-> target[32 - size + 1] + target[32 - size + 2] * 256
                       + target[32 - size + 3] * 65536 + size * (2^24)]

Zeros(n) == [k \in 1..n |-> 0]
\* a string of digits without its leading zeros
Trim(ds) ==
    IF \A k \in 1..Len(ds) : ds[k] = 0 THEN <<>>
    ELSE SubSeq(ds, CHOOSE k \in 1..Len(ds) :
                        ds[k] # 0 /\ \A j \in 1..(k - 1) : ds[j] = 0, Len(ds))
PadLeft(ds, n) == Zeros(n - Len(ds)) \o ds
BitsOf(ds) ==
    [k \in 1..(8 * Len(ds)) |-> (ds[(k - 1) \div 8 + 1] \div 2^(7 - ((k - 1) % 8))) % 2]
BytesOf(bits) ==
    [j \in 1..(Len(bits) \div 8) |->
        128 * bits[8 * j - 7] + 64 * bits[8 * j - 6] + 32 * bits[8 * j - 5]
        + 16 * bits[8 * j - 4] + 8 * bits[8 * j - 3] + 4 * bits[8 * j - 2]
        + 2 * bits[8 * j - 1] + bits[8 * j]]

\* Exact arithmetic on significands, from which the rounded f64 results are
\* computed: a natural number is a big-endian string of 14-bit limbs.
LimbBase == 2^14
Bits7(b, o) ==
    64 * b[o + 1] + 32 * b[o + 2] + 16 * b[o + 3] + 8 * b[o + 4] + 4 * b[o + 5]
    + 2 * b[o + 6] + b[o + 7]
LimbsOf(bits) ==
    [j \in 1..(Len(bits) \div 14) |->
        128 * Bits7(bits, 14 * (j - 1)) + Bits7(bits, 14 * (j - 1) + 7)]
BitsOfLimbs(ls) ==
    [k \in 1..(14 * Len(ls)) |->
        (ls[(k - 1) \div 14 + 1] \div 2^(13 - ((k - 1) % 14))) % 2]
\* column values (possibly negative or beyond a limb) to limbs, one limb more
RECURSIVE LimbCarry(_, _)
LimbCarry(vs, carry) ==
    IF vs = <<>> THEN <<carry>>
    ELSE LimbCarry(SubSeq(vs, 1, Len(vs) - 1), (vs[Len(vs)] + carry) \div LimbBase)
             \o <<(vs[Len(vs)] + carry) % LimbBase>>
LimbMulSmall(ds, a) == LimbCarry([k \in 1..Len(ds) |-> ds[k] * a], 0)
\* a - b for a >= b of the same length
LimbSub(a, b) == Tail(LimbCarry([k \in 1..Len(a) |-> a[k] - b[k]], 0))
LimbLeq(a, b) ==
    \A k \in 1..Len(a) : (\A j \in 1..(k - 1) : a[j] = b[j]) => a[k] <= b[k]
ColTerm(x, y, i, s) == IF s + 1 - i \in 1..Len(y) THEN x[i] * y[s + 1 - i] ELSE 0
\* the product of two numbers of four limbs
LimbMul(x, y) ==
    LimbCarry([s \in 1..7 |-> ColTerm(x, y, 1, s) + ColTerm(x, y, 2, s)
                              + ColTerm(x, y, 3, s) + ColTerm(x, y, 4, s)], 0)
\* one step of the long division by y, whose first limb is at least half the
\* base: [d, r] with r * LimbBase = d * y + r', from r < y
DivStep(r, y) ==
    Eager(IF (r[1] * LimbBase + r[2]) \div y[1] < LimbBase
          THEN (r[1] * LimbBase + r[2]) \div y[1] ELSE LimbBase - 1, LAMBDA qhat :
    Eager(CHOOSE d \in (qhat - 2)..qhat :
              /\ d >= 0
              /\ LimbLeq(LimbMulSmall(y, d), r \o <<0>>)
              /\ d < qhat => ~LimbLeq(LimbMulSmall(y, d + 1), r \o <<0>>),
          LAMBDA d :
              [d |-> d, r |-> Tail(LimbSub(r \o <<0>>, LimbMulSmall(y, d)))]))

\* A finite non-negative f64 is [m, e]: the 53 bits of its significand, the
\* first of them 1, and the value m * 2^e; zero has no bits.
F64Zero == [m |-> <<>>, e |-> 0]
F64One == [m |-> <<1>> \o Zeros(52), e |-> 0 - 52]
IncBits(bits) ==
    Eager(CHOOSE j \in 1..Len(bits) :
              bits[j] = 0 /\ \A k \in (j + 1)..Len(bits) : bits[k] = 1,
          LAMBDA j : [k \in 1..Len(bits) |->
                         IF k < j THEN bits[k] ELSE IF k = j THEN 1 ELSE 0])
\* round-to-nearest, ties-to-even, of bits * 2^e plus something below the last
\* bit when sticky
RoundF64(bits, sticky, e) ==
    IF bits = <<>> THEN F64Zero
    ELSE IF Len(bits) <= 53
    THEN [m |-> bits \o Zeros(53 - Len(bits)), e |-> e - (53 - Len(bits))]
    ELSE IF ~(/\ bits[54] = 1
              /\ \/ sticky
                 \/ bits[53] = 1
                 \/ \E k \in 55..Len(bits) : bits[k] = 1)
    THEN [m |-> SubSeq(bits, 1, 53), e |-> e + Len(bits) - 53]
    ELSE IF \A k \in 1..53 : bits[k] = 1
    THEN [m |-> <<1>> \o Zeros(52), e |-> e + Len(bits) - 52]
    ELSE [m |-> IncBits(SubSeq(bits, 1, 53)), e |-> e + Len(bits) - 53]
\* `x as f64` for a u64 given by its 8 bytes
F64FromU64(ds) == Eager(Trim(BitsOf(ds)), LAMBDA bits : RoundF64(bits, FALSE, 0))
\* `n as f64` for a small natural
F64FromNat(n) == F64FromU64(<<Byte(n, 3), Byte(n, 2), Byte(n, 1), Byte(n, 0)>>)
\* x / y on non-zero finite values
F64Div(x, y) ==
    Eager(LimbsOf(y.m \o Zeros(3)), LAMBDA den :
    Eager(LimbsOf(x.m \o Zeros(3)), LAMBDA num :
    Eager(IF LimbLeq(den, num) THEN [d |-> 1, r |-> LimbSub(num, den)]
          ELSE [d |-> 0, r |-> num], LAMBDA s0 :
    Eager(DivStep(s0.r, den), LAMBDA s1 :
    Eager(DivStep(s1.r, den), LAMBDA s2 :
    Eager(DivStep(s2.r, den), LAMBDA s3 :
    Eager(DivStep(s3.r, den), LAMBDA s4 :
    Eager(Trim(<<s0.d>> \o BitsOfLimbs(<<s1.d, s2.d, s3.d, s4.d>>)), LAMBDA bits :
        RoundF64(bits, s4.r # Zeros(4), x.e - y.e - 56)))))))))
\* x * y
F64Mul(x, y) ==
    IF x.m = <<>> \/ y.m = <<>> THEN F64Zero
    ELSE Eager(Trim(BitsOfLimbs(LimbMul(LimbsOf(Zeros(3) \o x.m),
                                        LimbsOf(Zeros(3) \o y.m)))),
               LAMBDA bits : RoundF64(bits, FALSE, x.e + y.e))
\* `v as u64`: truncated towards zero, saturating at u64::MAX
F64ToU64(v) ==
    IF v.m = <<>> \/ 53 + v.e <= 0 THEN Zeros(8)
    ELSE IF 53 + v.e > 64 THEN [k \in 1..8 |-> 255]
    ELSE BytesOf(PadLeft(IF v.e >= 0 THEN v.m \o Zeros(v.e)
                         ELSE SubSeq(v.m, 1, 53 + v.e), 64))

\* (x as f64 * (1.0 / factor)) as u64 on the 8 bytes of x, where the f64
\* factor is den as f64 / num as f64.  A zero num makes the factor infinite
\* or NaN and the result 0; a zero den makes the scale infinite.
ScaleU64(ds, num, den) ==
    IF num = 0 THEN Zeros(8)
    ELSE IF den = 0
    THEN IF Trim(ds) = <<>> THEN Zeros(8) ELSE [k \in 1..8 |-> 255]
    ELSE Eager(F64FromU64(ds), LAMBDA x :
         Eager(F64Div(F64FromNat(den), F64FromNat(num)), LAMBDA factor :
         Eager(F64Div(F64One, factor), LAMBDA scale_factor :
         Eager(F64Mul(x, scale_factor), LAMBDA scaled : F64ToU64(scaled)))))

\* DifficultyAdjuster::scale_target, the factor given as num/den
scale_target(target, num, den) ==
    Eager(ScaleU64(SubSeq(target, 25, 32), num, den), LAMBDA scaled_bytes :
        [k \in 1..32 |-> IF k <= 24 THEN 0 ELSE scaled_bytes[k - 24]])

\* DifficultyAdjuster::adjust_bits, scaling by 1/factor = den/num: [panic, bits]
adjust_bits(current_bits, num, den) ==
    LET t == bits_to_target(current_bits) IN
    IF t.panic THEN [panic |-> TRUE, bits |-> 0]
    ELSE Eager(scale_target(t.target, den, num), LAMBDA new_target :
               target_to_bits(new_target))

\* DifficultyAdjuster::verify_block_sequence
verify_block_sequence(blocks) ==
    \A k \in 2..Len(blocks) :
        /\ blocks[k].header.height = blocks[k - 1].header.height + 1
        /\ blocks[k].header.timestamp >= blocks[k - 1].header.timestamp

\* the factor with the upper limit only (no .max(min_adjustment_factor))
AdjustmentFactor_no_floor(expected, actual) ==
    IF 4 * actual <= expected THEN [num |-> 4, den |-> 1]
    ELSE [num |-> expected, den |-> actual]

\* the clamped adjustment factor as a fraction [num, den]: the f64 factor of
\* the code is num as f64 / den as f64; 0/0 is NaN, which max() replaces by
\* the lower limit
AdjustmentFactor(expected, actual) ==
    IF expected = 0 /\ actual = 0 THEN [num |-> 1, den |-> 4]
    ELSE IF 4 * actual <= expected THEN [num |-> 4, den |-> 1]
    ELSE IF actual >= 4 * expected THEN [num |-> 1, den |-> 4]
    ELSE [num |-> expected, den |-> actual]

\* DifficultyAdjuster::calculate_next_difficulty:
\* [panic, ok, new_bits, factor, needs_adjustment]
calculate_next_difficulty(recent_blocks, current_bits) ==
    LET fail == [panic |-> FALSE, ok |-> FALSE, new_bits |-> 0,
                 factor |-> [num |-> 1, den |-> 1], needs_adjustment |-> FALSE]
    IN
    IF Len(recent_blocks) < DIFFICULTY_ADJUSTMENT_INTERVAL THEN fail
    ELSE IF ~verify_block_sequence(recent_blocks) THEN fail
    ELSE
    LET actual_time == recent_blocks[Len(recent_blocks)].header.timestamp
                           - recent_blocks[1].header.timestamp
        expected_time == TARGET_BLOCK_TIME * (DIFFICULTY_ADJUSTMENT_INTERVAL - 1)
        f == AdjustmentFactor(expected_time, actual_time)
    IN  Eager(IF f.num = f.den THEN [panic |-> FALSE, bits |-> current_bits]
              ELSE adjust_bits(current_bits, f.num, f.den),
              LAMBDA adjusted :
                 [panic |-> adjusted.panic, ok |-> ~adjusted.panic,
                  new_bits |-> adjusted.bits, factor |-> f,
                  needs_adjustment |-> adjusted.bits # current_bits])

\* SedlyApp::update_difficulty: [panic, bits]
update_difficulty(d, cs, height) ==
    LET keep == [panic |-> FALSE, bits |-> cs.current_bits] IN
    IF height % DIFFICULTY_ADJUSTMENT_INTERVAL = 0 /\ height > 0
    THEN With(RecentBlocks(d, height - DIFFICULTY_ADJUSTMENT_INTERVAL, height),
              LAMBDA recent_blocks :
         IF Len(recent_blocks) = DIFFICULTY_ADJUSTMENT_INTERVAL
         THEN Eager(calculate_next_difficulty(recent_blocks, cs.current_bits),
                   LAMBDA a :
              IF a.panic THEN [panic |-> TRUE, bits |-> 0]
              ELSE IF a.ok THEN [panic |-> FALSE, bits |-> a.new_bits]
              ELSE keep)
         ELSE keep)
    ELSE keep

\* BlockHeader::target
header_target(h) == bits_to_target(h.bits)

\* a <= b on [u8; 32]: the order of arrays, byte by byte from index 0
RECURSIVE ArrayLeq(_, _, _)
ArrayLeq(a, b, k) ==
    IF k > 32 THEN TRUE
    ELSE IF a[k] # b[k] THEN a[k] < b[k]
    ELSE ArrayLeq(a, b, k + 1)

\* BlockHeader::meets_difficulty.  SHA-256 is not computed here: hash values are
\* kept apart by what was hashed (Sha256), and the 32 bytes the hash of this
\* header comes to are given (digest), as the code has no influence on them.
meets_difficulty(h, digest) ==
    [panic |-> header_target(h).panic,
     val |-> ~header_target(h).panic /\ ArrayLeq(digest, header_target(h).target, 1)]

\* Block::is_valid: [panic, val]; the panic is that of bits_to_target, reached
\* through meets_difficulty
block_is_valid(block, digest) ==
    IF meets_difficulty(block.header, digest).panic
    THEN [panic |-> TRUE, val |-> FALSE]
    ELSE IF ~meets_difficulty(block.header, digest).val
    THEN [panic |-> FALSE, val |-> FALSE]
    ELSE IF calculate_merkle_root(block.transactions) # block.header.merkle_root
    THEN [panic |-> FALSE, val |-> FALSE]
    ELSE IF block.transactions = <<>> THEN [panic |-> FALSE, val |-> FALSE]
    ELSE [panic |-> FALSE, val |-> TRUE]

(***************************************************************************)
(* Inputs of the ABCI driver.  The code accepts any height in BeginBlock   *)
(* and any bytes in CheckTx / DeliverTx; the model draws heights from a    *)
(* low and a mature range, and transactions from the outpoints the store   *)
(* knows, the null outpoint, and outputs of value 0 and 1.                 *)
(***************************************************************************)
Heights ==
    (1..MaxLowHeight) \cup ((COINBASE_MATURITY + 1)..(COINBASE_MATURITY + MaxLowHeight))
Timestamps == {GENESIS_TIMESTAMP + TARGET_BLOCK_TIME * k : k \in 1..MaxClock}

CandidateOutpoints(d) ==
    {NULL_OUTPOINT} \cup {[txid |-> t, vout |-> 0] : t \in DOMAIN d.tx_index}
CandidateInputs(d) ==
    {<<>>} \cup {<<TxInput(o, <<>>)>> : o \in CandidateOutpoints(d)}
CandidateOutputs ==
    {<<>>, <<TxOutput(U64(0, 0), ZERO_HASH, <<>>)>>,
     <<TxOutput(U64(0, 1), ZERO_HASH, <<>>)>>}
CandidateTxs(d) ==
    {Transaction(i, o, 0) : i \in CandidateInputs(d), o \in CandidateOutputs}
\* two byte strings that are no transaction, and the serialized candidates
RawTxs(d) == {<<>>, <<PROTOCOL_VERSION, 1>>} \cup {tx_serialize(t) : t \in CandidateTxs(d)}

\* the 32 bytes a header hash can come to: all zero, the genesis target itself,
\* and all 0xff
Digests ==
    {ZeroTarget, bits_to_target(GENESIS_BITS).target, [k \in 1..32 |-> 255]}

NoRequest == Request("new", <<>>, 0, 0, <<>>)
NoResponse == Response("new", 0, <<>>, "", 0, 0, "", 0)

(***************************************************************************)
(* The miner (core/src/mining.rs) and the consensus state manager          *)
(* (consensus/src/state.rs) as their constructors leave them.              *)
(***************************************************************************)
MaxStateThreads == 2
StateThreads == 1..MaxStateThreads

\* Miner::new.  Besides the fields of the struct the record holds the call in
\* progress on the miner (call), the worker threads of that call (workers), what
\* was sent on its result channel (channel), what the call returned (result),
\* whether stop() was called during the call before any solution
\* (stop_requested), and how often each nonce was hashed in the call (hashed).
Miner_new(target, threads) ==
    [target |-> target, threads |-> threads, should_stop |-> FALSE,
     nonce_counter |-> 0, call |-> None, workers |-> <<>>, channel |-> <<>>,
     result |-> None, stop_requested |-> FALSE, hashed |-> <<>>]

\* Miner::with_difficulty_bits: bits_to_target panics on an exponent above 32
\* and then no Miner is built
with_difficulty_bits(bits, threads) ==
    IF bits_to_target(bits).panic
    THEN [panic |-> TRUE, miner |-> None]
    ELSE [panic |-> FALSE, miner |-> Some(Miner_new(bits_to_target(bits).target, threads))]

\* ConsensusState::default
ConsensusState_default ==
    [height |-> 0, best_block_hash |-> ZERO_HASH, difficulty_bits |-> GENESIS_BITS,
     total_transactions |-> 0, validators |-> <<>>, app_hash |-> ZERO_HASH]

\* RwLock::new: the thread that holds the lock for writing (0 for none) and the
\* threads that hold it for reading
RwLock_new == [writer |-> 0, readers |-> {}]

\* a thread that is in no call on the manager; err is what its last call
\* returned ("" for Ok) and err_id the validator id formatted into that error
IdleThread ==
    [op |-> "idle", pc |-> "", arg |-> None, local |-> None, err |-> "", err_id |-> <<>>]

\* StateManager::new; calls counts the calls made on the manager; state_lock
\* and history_lock are the two RwLocks around state and history, threads[t]
\* is the call thread t is in, the lock operation it is about to make and its
\* local variables
StateManager_new(initial_state) ==
    [state |-> initial_state, history |-> <<>>, max_history |-> 100, calls |-> 0,
     state_lock |-> RwLock_new, history_lock |-> RwLock_new,
     threads |-> [t \in StateThreads |-> IdleThread]]

(***************************************************************************)
(* The ABCI handlers.                                                      *)
(***************************************************************************)
\* SedlyApp::new on an empty store
InitApp ==
    /\ db = new(EmptyDB).db
    /\ chain_state = new(EmptyDB).chain_state
    /\ current_block = None
    /\ req = NoRequest
    /\ resp = NoResponse
    /\ commit_pc = None
    /\ check_pc = None

\* the node after construction: the application, a miner for the genesis
\* difficulty and a state manager
Init ==
    /\ InitApp
    /\ miner = with_difficulty_bits(genesis_difficulty, 1).miner[1]
    /\ state_manager = StateManager_new(ConsensusState_default)

\* the process stops and SedlyApp::new opens the existing store
Restart ==
    /\ db' = new(db).db
    /\ chain_state' = new(db).chain_state
    /\ current_block' = None
    /\ UNCHANGED <<miner, state_manager>>
    /\ req' = NoRequest
    /\ resp' = NoResponse
    /\ commit_pc' = None
    /\ check_pc' = None

\* the app hash info and init_chain report
last_block_app_hash(cs) == cs.best_block_hash

\* Application::info
Info ==
    /\ check_pc = None
    /\ UNCHANGED <<miner, state_manager>>
    /\ req' = Request("info", <<>>, 0, 0, <<>>)
    /\ resp' = Response("info", 0, last_block_app_hash(chain_state), "Sedly Blockchain",
                        0, 0, "", chain_state.height)
    /\ UNCHANGED <<db, chain_state, current_block, commit_pc, check_pc>>

\* Application::init_chain
InitChain ==
    /\ commit_pc = None /\ check_pc = None
    /\ UNCHANGED <<miner, state_manager>>
    /\ req' = Request("init_chain", <<>>, 0, 0, <<>>)
    /\ resp' = Response("init_chain", 0, last_block_app_hash(chain_state), "", 0, 0,
                        "", 0)
    /\ UNCHANGED <<db, chain_state, current_block, commit_pc, check_pc>>

\* the response of check_tx to the result of check_transaction
CheckTxResponse(result) ==
    IF result.valid
    THEN Response("check_tx", 0, <<>>, "Transaction valid",
                  result.gas_used, result.gas_used, "", 0)
    ELSE Response("check_tx", 1, <<>>, result.error, 0, 0, "sedly", 0)

\* the response of check_tx to the bytes raw when every read of its loop finds
\* the store d
check_tx(d, cs, raw) ==
    With(tx_deserialize(raw), LAMBDA p :
    IF p.ok
    THEN CheckTxResponse(check_transaction(d, cs, p.val))
    ELSE Response("check_tx", 2, <<>>, "Failed to decode transaction", 0, 0, "sedly", 0))

\* one turn of the loop of check_transaction, the read of input k in the store
\* d: the result that ends the loop, or None to go on with input k + 1
CheckInput(d, height, tx, k) ==
    With(is_utxo_spendable(d, tx.inputs[k].previous_output, height), LAMBDA r :
         IF r.err THEN Some(TxCheckResult(FALSE, "Database error", 0))
         ELSE IF ~r.val
         THEN Some(TxCheckResult(FALSE, "UTXO not found or not spendable", 0))
         ELSE IF k = Len(tx.inputs) THEN Some(TxCheckResult(TRUE, "", tx_size(tx)))
         ELSE None)

\* check_tx of raw goes on to a second read of the store: raw decodes to a
\* transaction that passes the tests made before the loop and whose first
\* input is spendable and not its last
ReadsAgain(d, cs, raw) ==
    /\ tx_deserialize(raw).ok
    /\ tx_is_valid(tx_deserialize(raw).val)
    /\ ~is_coinbase(tx_deserialize(raw).val)
    /\ CheckInput(d, cs.height, tx_deserialize(raw).val, 1) = None

\* Application::check_tx, up to its response or, when the transaction has more
\* inputs to read, up to its first read of the store.  The mempool connection
\* makes one call at a time; the lock of chain_state is taken before the loop
\* of check_transaction and held to the response.
CheckTx(raw) ==
    /\ check_pc = None
    /\ UNCHANGED <<miner, state_manager>>
    /\ req' = Request("check_tx", raw, 0, 0, <<>>)
    /\ IF ReadsAgain(db, chain_state, raw)
       THEN /\ check_pc' = Some([tx |-> tx_deserialize(raw).val,
                                 height |-> chain_state.height, k |-> 2,
                                 req |-> req'])
            /\ UNCHANGED resp
       ELSE /\ check_pc' = None
            /\ resp' = check_tx(db, chain_state, raw)
    /\ UNCHANGED <<db, chain_state, current_block, commit_pc>>

\* the next read of the loop of check_transaction in a check_tx in progress
CheckTxRead ==
    /\ check_pc # None
    /\ UNCHANGED <<miner, state_manager>>
    /\ req' = check_pc[1].req
    /\ With(CheckInput(db, check_pc[1].height, check_pc[1].tx, check_pc[1].k),
            LAMBDA result :
                IF result = None
                THEN /\ check_pc' = Some([check_pc[1] EXCEPT !.k = @ + 1])
                     /\ UNCHANGED resp
                ELSE /\ check_pc' = None
                     /\ resp' = CheckTxResponse(result[1]))
    /\ UNCHANGED <<db, chain_state, current_block, commit_pc>>

\* Application::begin_block
BeginBlock(height, time) ==
    LET previous_hash == chain_state.best_block_hash
        new_bits == update_difficulty(db, chain_state, height)
        builder == BlockBuilder(<<create_coinbase(height, BENEFICIARY)>>, height,
                                previous_hash, time, new_bits.bits)
    IN  /\ commit_pc = None /\ check_pc = None
        /\ req' = Request("begin_block", <<>>, height, time, <<>>)
        /\ UNCHANGED <<miner, state_manager>>
        /\ IF new_bits.panic
           THEN /\ resp' = Response("begin_block", -1, <<>>, "panic", 0, 0, "", height)
                /\ UNCHANGED current_block
           ELSE /\ resp' = Response("begin_block", 0, <<>>, "", 0, 0, "", height)
                /\ current_block' = Some(builder)
        /\ UNCHANGED <<db, chain_state, commit_pc, check_pc>>

\* a deliver_tx that takes every decodable transaction
deliver_tx_unchecked(d, cs, cb, raw) ==
    With(tx_deserialize(raw), LAMBDA p :
    IF p.ok
    THEN IF cb # None
         THEN Response("deliver_tx", 0, tx_hash(p.val), "Transaction delivered",
                       tx_size(p.val), tx_size(p.val), "", 0)
         ELSE Response("deliver_tx", 3, <<>>, "No block being built", 0, 0, "sedly", 0)
    ELSE Response("deliver_tx", 2, <<>>, "Failed to decode transaction", 0, 0, "sedly", 0))

\* the response of deliver_tx to the bytes raw
deliver_tx(d, cs, cb, raw) ==
    With(tx_deserialize(raw), LAMBDA p :
    IF p.ok
    THEN With(check_transaction(d, cs, p.val), LAMBDA result :
         IF result.valid
         THEN IF cb # None
              THEN Response("deliver_tx", 0, tx_hash(p.val), "Transaction delivered",
                            result.gas_used, result.gas_used, "", 0)
              ELSE Response("deliver_tx", 3, <<>>, "No block being built", 0, 0,
                            "sedly", 0)
         ELSE Response("deliver_tx", 1, <<>>, result.error, 0, 0, "sedly", 0))
    ELSE Response("deliver_tx", 2, <<>>, "Failed to decode transaction", 0, 0, "sedly", 0))

\* Application::deliver_tx.  It decodes raw and makes the tests of
\* check_transaction that come before the loop without a lock: bytes that do
\* not decode, a transaction that is not valid and a coinbase are answered
\* while a check_tx holds the lock of chain_state.  A transaction that reaches
\* the loop waits for that lock.
DeliverTx(raw) ==
    /\ commit_pc = None
    /\ check_pc # None =>
           With(tx_deserialize(raw), LAMBDA p :
                ~(p.ok /\ tx_is_valid(p.val) /\ ~is_coinbase(p.val)))
    /\ UNCHANGED <<miner, state_manager>>
    /\ req' = Request("deliver_tx", raw, 0, 0, <<>>)
    /\ resp' = deliver_tx(db, chain_state, current_block, raw)
    /\ current_block' =
           IF resp'.code = 0
           THEN Some([current_block[1] EXCEPT
                          !.transactions = Append(@, tx_deserialize(raw).val)])
           ELSE current_block
    /\ UNCHANGED <<db, chain_state, commit_pc, check_pc>>

\* Application::end_block
EndBlock(height) ==
    /\ commit_pc = None
    /\ UNCHANGED <<miner, state_manager>>
    /\ req' = Request("end_block", <<>>, height, 0, <<>>)
    /\ resp' = Response("end_block", 0, <<>>, "", 0, 0, "", height)
    /\ UNCHANGED <<db, chain_state, current_block, commit_pc, check_pc>>

\* the heights Query is asked about
QueryHeights == {0} \cup Heights

\* char::to_digit(10)
DigitChars == <<"0", "1", "2", "3", "4", "5", "6", "7", "8", "9">>
IsDigit(c) == \E k \in 1..10 : DigitChars[k] = c
DigitOf(c) == (CHOOSE k \in 1..10 : DigitChars[k] = c) - 1

\* one round of the loop of u64::from_str: result.checked_mul(10) and then
\* checked_add(digit), the u64 held as four 16-bit limbs, the most significant
\* first; None when either overflows
MulAdd10(result, digit) ==
    LET v4 == result[4] * 10 + digit
        v3 == result[3] * 10 + v4 \div 65536
        v2 == result[2] * 10 + v3 \div 65536
        v1 == result[1] * 10 + v2 \div 65536
    IN  IF v1 >= 65536 THEN None
        ELSE Some(<<v1, v2 % 65536, v3 % 65536, v4 % 65536>>)

\* the loop of u64::from_str over the characters after the sign: None at a
\* character that is no digit and at an overflow
RECURSIVE FromDigits(_, _)
FromDigits(digits, result) ==
    IF digits = "" THEN Some(result)
    ELSE IF ~IsDigit(Head(digits)) THEN None
    ELSE Eager(MulAdd10(result, DigitOf(Head(digits))), LAMBDA next :
             IF next = None THEN None ELSE FromDigits(Tail(digits), next[1]))

\* str::parse::<u64> on a path part: the empty string and a lone sign are
\* errors, one leading "+" is skipped, a "-" is no digit of an unsigned
\* number.  The value parsed is given as its to_be_bytes(), the form under
\* which the height index is read.
ParseU64(str) ==
    IF str \in {"", "+", "-"} THEN None
    ELSE Eager(FromDigits(IF Head(str) = "+" THEN Tail(str) ELSE str, <<0, 0, 0, 0>>),
               LAMBDA r :
             IF r = None THEN None
             ELSE Some(<<r[1][1] \div 256, r[1][1] % 256, r[1][2] \div 256,
                         r[1][2] % 256, r[1][3] \div 256, r[1][3] % 256,
                         r[1][4] \div 256, r[1][4] % 256>>))

\* request.path.split('/') of the paths Query is given: numerals of heights as
\* to_string writes them, with leading zeros and a sign, of u64::MAX and of
\* the number after it, and parts that are no numeral
QueryPaths ==
    {<<"info">>, <<"tx", "0">>}
        \cup {<<"block", ToString(h)>> : h \in QueryHeights}
        \cup {<<"block", part>> :
                 part \in {"x", "", "+", "-1", "+1", "01", "00", "2",
                           "18446744073709551615", "18446744073709551616"}}

\* the response of query; the value of "info" is the pair the JSON text holds
query(d, cs, path_parts) ==
    IF Len(path_parts) = 2 /\ path_parts[1] = "block"
    THEN Eager(ParseU64(path_parts[2]), LAMBDA height :
         IF height # None
         THEN With(get_block_by_height_key(d, height[1]), LAMBDA b :
              IF b.err
              THEN Response("query", 3, <<>>, "Database error", 0, 0, "sedly", 0)
              ELSE IF b.some = <<>>
              THEN Response("query", 2, <<>>, "Block not found", 0, 0, "sedly", 0)
              ELSE Response("query", 0, block_serialize(b.some[1]), "Block found", 0, 0,
                            "", U64FromBE(height[1])))
         ELSE Response("query", 4, <<>>, "Invalid height format", 0, 0, "sedly", 0))
    ELSE IF path_parts = <<"info">>
    THEN Response("query", 0, <<cs.height, cs.best_block_hash>>, "Chain info", 0, 0,
                  "", cs.height)
    ELSE Response("query", 5, <<>>, "Unknown query path", 0, 0, "sedly", 0)

\* Application::query
Query(path_parts) ==
    /\ path_parts = <<"info">> => check_pc = None
    /\ UNCHANGED <<miner, state_manager>>
    /\ req' = Request("query", <<>>, 0, 0, path_parts)
    /\ resp' = query(db, chain_state, path_parts)
    /\ UNCHANGED <<db, chain_state, current_block, commit_pc, check_pc>>

\* ChainState after commit stored the block of builder
advance(cs, builder, block) ==
    [cs EXCEPT !.height = builder.height,
               !.best_block_hash = block_hash(block),
               !.current_bits = builder.bits,
               !.total_transactions = @ + Len(block.transactions)]

\* a take that leaves the value in place
take_copy(option) == [taken |-> option, left |-> option]

\* Option::take: the value taken, and None left in its place
take(option) == [taken |-> option, left |-> None]

(***************************************************************************)
(* Commit step by step, with the calls of the other connections between    *)
(* its steps.  The consensus connection (InitChain, BeginBlock, DeliverTx, *)
(* EndBlock, Commit) is sequential; CheckTx, Info and Query arrive on      *)
(* connections of their own and take the lock of chain_state one call at a *)
(* time.  Commit holds the lock of current_block from take() on, writes    *)
(* the store, and only then locks chain_state.  CheckTx holds the lock of  *)
(* chain_state over all the reads of its loop, so a Commit that has        *)
(* written the store waits for it, and the store can change once between   *)
(* two of its reads.                                                       *)
(***************************************************************************)
\* commit up to the return of store_block
CommitStore(now, write_ok, digest) ==
    /\ commit_pc = None
    /\ UNCHANGED <<miner, state_manager>>
    /\ req' = RequestCommit(now, write_ok, digest)
    /\ current_block' = take(current_block).left
    /\ UNCHANGED <<chain_state, check_pc>>
    /\ IF current_block # None
       THEN LET builder == take(current_block).taken[1]
                block == Block_new(builder.previous_hash, builder.transactions,
                                   builder.bits, builder.height, now)
            IN  /\ db' = store_block(db, block, write_ok).db
                /\ IF store_block(db, block, write_ok).ok
                   THEN /\ commit_pc' = Some([builder |-> builder, block |-> block,
                                              req |-> req'])
                        /\ UNCHANGED resp
                   ELSE /\ commit_pc' = None
                        /\ resp' = Response("commit", 0, <<>>, "Failed to store block",
                                            0, 0, "", 0)
       ELSE /\ resp' = Response("commit", 0, <<>>, "No block to commit", 0, 0, "", 0)
            /\ UNCHANGED <<db, commit_pc>>

\* commit from the lock of chain_state to its response
CommitAdvance ==
    /\ commit_pc # None /\ check_pc = None
    /\ UNCHANGED <<miner, state_manager>>
    /\ req' = commit_pc[1].req
    /\ chain_state' = advance(chain_state, commit_pc[1].builder, commit_pc[1].block)
    /\ resp' = Response("commit", 0, block_hash(commit_pc[1].block), "", 0, 0, "", 0)
    /\ commit_pc' = None
    /\ UNCHANGED <<db, current_block, check_pc>>

\* the blocks the store holds besides genesis
StoredBlocks == Cardinality(DOMAIN db.blocks) - 1
\* the builder, if there is one, can take one more delivered transaction
BuilderHasRoom ==
    current_block # None => Len(current_block[1].transactions) <= MaxDelivered

Next ==
    \/ Restart
    \/ Info
    \/ InitChain
    \/ \E raw \in RawTxs(db) : CheckTx(raw)
    \/ \E height \in Heights, time \in Timestamps :
           StoredBlocks < MaxBlocks /\ BeginBlock(height, time)
    \/ \E raw \in RawTxs(db) : BuilderHasRoom /\ DeliverTx(raw)
    \/ \E height \in Heights : EndBlock(height)
    \/ \E path_parts \in QueryPaths : Query(path_parts)
    \/ \E now \in Timestamps, write_ok \in BOOLEAN, digest \in Digests :
           CommitStore(now, write_ok, digest)
    \/ CommitAdvance

Spec == Init /\ [][Next]_vars

(***************************************************************************)
(* The same handlers under a driver that only builds and commits blocks of *)
(* spending transactions, every write accepted, over more blocks.          *)
(***************************************************************************)
SpendingTxs(d) ==
    {Transaction(<<TxInput([txid |-> t, vout |-> 0], <<>>)>>,
                 <<TxOutput(U64(0, 1), ZERO_HASH, <<>>)>>, 0) : t \in DOMAIN d.tx_index}

NextReplay ==
    \/ \E tx \in SpendingTxs(db) : CheckTx(tx_serialize(tx))
    \/ \E height \in Heights :
           StoredBlocks < MaxReplayBlocks /\ BeginBlock(height, GENESIS_TIMESTAMP)
    \/ \E tx \in SpendingTxs(db) : BuilderHasRoom /\ DeliverTx(tx_serialize(tx))
    \/ \E now \in Timestamps : CommitStore(now, TRUE, ZeroTarget)
    \/ CommitAdvance

SpecReplay == Init /\ [][NextReplay]_vars

(***************************************************************************)
(* The same handlers under a driver whose mempool connection also offers   *)
(* transactions of two inputs, so that a Commit on the consensus           *)
(* connection can write the store between the two reads of one CheckTx.    *)
(***************************************************************************)
\* the transactions the mempool connection offers: the spending transactions,
\* and transactions of two inputs that spend outputs of two transactions, each
\* of them in the store or delivered to the builder
KnownTxids ==
    DOMAIN db.tx_index
        \cup (IF current_block = None THEN {}
              ELSE {tx_hash(current_block[1].transactions[k]) :
                        k \in 1..Len(current_block[1].transactions)})
MempoolTxs ==
    SpendingTxs(db)
        \cup {Transaction(<<TxInput([txid |-> p[1], vout |-> 0], <<>>),
                            TxInput([txid |-> p[2], vout |-> 0], <<>>)>>,
                          <<TxOutput(U64(0, 1), ZERO_HASH, <<>>)>>, 0) :
                  p \in {q \in (DOMAIN db.tx_index) \X KnownTxids : q[1] # q[2]}}

\* the bytes the consensus connection delivers: the spending transactions, and
\* bytes deliver_tx answers before it asks for the lock of chain_state: no
\* bytes, a transaction cut after two fields, a coinbase, a transaction
\* without inputs and one whose output has value 0
DeliveredRawTxs(d) ==
    {tx_serialize(tx) : tx \in SpendingTxs(d)}
        \cup {<<>>, <<PROTOCOL_VERSION, 1>>,
              tx_serialize(create_coinbase(1, BENEFICIARY)),
              tx_serialize(Transaction(<<>>, <<TxOutput(U64(0, 1), ZERO_HASH, <<>>)>>, 0)),
              tx_serialize(Transaction(<<TxInput([txid |-> tx_hash(genesis_tx), vout |-> 0], <<>>)>>,
                                       <<TxOutput(U64(0, 0), ZERO_HASH, <<>>)>>, 0))}

NextConcurrent ==
    \/ Restart
    \/ Info
    \/ \E path_parts \in QueryPaths : Query(path_parts)
    \/ \E tx \in MempoolTxs : CheckTx(tx_serialize(tx))
    \/ CheckTxRead
    \/ \E height \in Heights :
           StoredBlocks < MaxBlocks /\ BeginBlock(height, GENESIS_TIMESTAMP)
    \/ \E raw \in DeliveredRawTxs(db) : BuilderHasRoom /\ DeliverTx(raw)
    \/ \E now \in Timestamps, write_ok \in BOOLEAN : CommitStore(now, write_ok, ZeroTarget)
    \/ CommitAdvance

SpecConcurrent == Init /\ [][NextConcurrent]_vars

(***************************************************************************)
(* The same handlers under a driver whose heights are the last one with a  *)
(* reward and the first one whose halved reward is 0.                      *)
(***************************************************************************)
\* INITIAL_BLOCK_REWARD >> 32 = 1 and INITIAL_BLOCK_REWARD >> 33 = 0
LateHeights == {HALVING_INTERVAL * halvings - k : halvings \in {33}, k \in {0, 1}}

NextHalving ==
    \/ \E raw \in RawTxs(db) : CheckTx(raw)
    \/ \E height \in LateHeights, time \in Timestamps :
           StoredBlocks < MaxBlocks /\ BeginBlock(height, time)
    \/ \E raw \in RawTxs(db) : BuilderHasRoom /\ DeliverTx(raw)
    \/ \E now \in Timestamps, write_ok \in BOOLEAN : CommitStore(now, write_ok, ZeroTarget)
    \/ CommitAdvance

SpecHalving == Init /\ [][NextHalving]_vars

(***************************************************************************)
(* Properties.  A step of a handler is recognised by the request it        *)
(* records: req' is the call the step makes, the unprimed variables are    *)
(* the state the call finds.  A Commit whose store_block succeeds takes    *)
(* two steps, the one that stores the block and the one that advances      *)
(* ChainState and returns; every other Commit takes one.                   *)
(***************************************************************************)
\* resp is the response to req: the call req records has returned
Answered ==
    /\ req.op = "commit" => commit_pc = None
    /\ req.op = "check_tx" => check_pc = None
\* the step is the start of a Commit
CommitCalled == req'.op = "commit" /\ commit_pc = None
\* the step is the start of a Commit that finds a builder and whose
\* store_block succeeds
CommitStored == CommitCalled /\ current_block # None /\ req'.write_ok
\* the step is the end of such a Commit
CommitReturned == req'.op = "commit" /\ commit_pc # None
\* the block such a Commit has sealed and stored
CommittedBlock == commit_pc[1].block
\* the block the start of a Commit seals
SealedBlock ==
    Block_new(current_block[1].previous_hash, current_block[1].transactions,
              current_block[1].bits, current_block[1].height, req'.time)

\* C1: after every successful Commit of a builder for height h, ChainState.height
\* is h, best_block_hash is the hash of the block just stored, current_bits is
\* that block's header.bits, total_transactions has grown by the block's
\* transaction count, the app hash is SHA-256(block hash || h as 8 big-endian
\* bytes), and the returned data is the block hash.
C1_CommitAdvancesChainState ==
    [][CommitReturned =>
          /\ get_block(db', block_hash(CommittedBlock)) = Found(CommittedBlock)
          /\ chain_state'.height = CommittedBlock.header.height
          /\ chain_state'.best_block_hash = block_hash(CommittedBlock)
          /\ chain_state'.current_bits = CommittedBlock.header.bits
          /\ chain_state'.total_transactions =
                 chain_state.total_transactions + Len(CommittedBlock.transactions)
          /\ last_block_app_hash(chain_state') =
                 Sha256(block_hash(CommittedBlock)
                            \o U64BE(CommittedBlock.header.height))
          /\ resp'.data = block_hash(CommittedBlock)]_vars

\* C2: a Commit that finds no builder, or whose store_block fails, returns empty
\* data and leaves ChainState and all five store namespaces as they were.
C2_FailedCommitChangesNothing ==
    [][(CommitCalled /\ (current_block = None \/ ~req'.write_ok)) =>
          /\ resp'.data = <<>>
          /\ chain_state' = chain_state
          /\ db' = db]_vars

\* a Commit found a builder over a store that holds blocks, and the write failed
C2_Witness ==
    /\ req.op = "commit" /\ ~req.write_ok
    /\ resp.log = "Failed to store block"
    /\ StoredBlocks >= 1

\* C3: in state Idle every DeliverTx fails with "No block being built" (code 3),
\* whatever the transaction bytes are, and leaves the builder absent.  (DeliverTx
\* never removes a builder, so an absent builder after DeliverTx is a DeliverTx
\* in Idle.)
C3_IdleDeliverTxCode3 ==
    (req.op = "deliver_tx" /\ current_block = None) =>
        (resp.code = 3 /\ resp.log = "No block being built")

\* C4: every Commit issued in state Building ends in state Idle, whether the
\* store write succeeded or failed; until the next BeginBlock a further DeliverTx
\* is refused and a further Commit returns empty data and stores nothing, so no
\* builder is committed twice.
C4_CommitEndsIdle ==
    [][/\ req'.op = "commit" => current_block' = None
       /\ (current_block = None /\ current_block' # None) => req'.op = "begin_block"
       /\ (current_block = None /\ req'.op = "deliver_tx") =>
              (resp'.code # 0 /\ current_block' = None)
       /\ (current_block = None /\ CommitCalled) =>
              (resp'.data = <<>> /\ db' = db /\ chain_state' = chain_state)]_vars

\* a block was committed and a further Commit found no builder
C4_Witness ==
    /\ req.op = "commit" /\ resp.log = "No block to commit"
    /\ current_block = None
    /\ StoredBlocks >= 1

\* C5: immediately after BeginBlock(h) the builder is fresh: its transactions are
\* exactly [coinbase(beneficiary, h, reward(h))], its height is h, its
\* previous_hash is the current tip hash and its bits are the bits chosen for h
\* (the current bits: no height of the model is a retarget height with a full
\* window); and BeginBlock(1) on a new chain followed by Commit with no DeliverTx
\* yields a block with exactly one transaction, previous_hash = genesis hash,
\* bits = 0x1D00FFFF, height 1, and ChainState.height becomes 1.
C5_FreshBuilder ==
    /\ [](req.op = "begin_block" =>
            current_block =
                Some(BlockBuilder(
                    <<coinbase(BENEFICIARY, req.height,
                               calculate_block_reward(req.height))>>,
                    req.height, chain_state.best_block_hash, req.time,
                    chain_state.current_bits)))
    /\ [][(/\ CommitReturned
           /\ StoredBlocks = 1 /\ chain_state.height = 0
           /\ CommittedBlock.header.height = 1) =>
              /\ get_block_by_height(db', 1) = Found(CommittedBlock)
              /\ Len(CommittedBlock.transactions) = 1
              /\ CommittedBlock.header.previous_hash = block_hash(genesis_block)
              /\ CommittedBlock.header.bits = GENESIS_BITS
              /\ CommittedBlock.header.height = 1
              /\ chain_state'.height = 1]_vars

\* the first block of a new chain was committed at height 1
C5_Witness ==
    /\ req.op = "commit" /\ resp.data # <<>>
    /\ StoredBlocks = 1
    /\ chain_state.height = 1
    /\ get_block_by_height(db, 1).some # <<>>

\* everything store_block(block) is to apply is there in the store d: the block
\* under its hash, the height index entry, the tx_index entry of every
\* transaction, no entry for an input of a non-coinbase transaction (unless a
\* transaction later in the block creates that output), an entry for every output
\* (unless a transaction later in the block spends it), and the metadata
AllApplied(d, block) ==
    LET hash == block_hash(block)
        h == block.header.height
        txs == block.transactions
    IN  /\ hash \in DOMAIN d.blocks /\ d.blocks[hash] = block_serialize(block)
        /\ U64BE(h) \in DOMAIN d.block_index /\ d.block_index[U64BE(h)] = hash
        /\ \A k \in 1..Len(txs) :
              /\ tx_hash(txs[k]) \in DOMAIN d.tx_index
              /\ \E j \in 1..Len(txs) :
                    /\ txs[j] = txs[k]
                    /\ d.tx_index[tx_hash(txs[k])] =
                           location_serialize(TxLocation(hash, j - 1, h))
        /\ \A k \in 1..Len(txs) : \A i \in 1..Len(txs[k].inputs) :
              (~is_coinbase(txs[k])
                  /\ outpoint_key(txs[k].inputs[i].previous_output) \in DOMAIN d.utxo)
              => \E j \in (k + 1)..Len(txs) :
                    /\ txs[k].inputs[i].previous_output.txid = tx_hash(txs[j])
                    /\ txs[k].inputs[i].previous_output.vout \in 0..(Len(txs[j].outputs) - 1)
        /\ \A k \in 1..Len(txs) : \A v \in 1..Len(txs[k].outputs) :
              \/ \E j \in (k + 1)..Len(txs) : \E i \in 1..Len(txs[j].inputs) :
                    /\ ~is_coinbase(txs[j])
                    /\ txs[j].inputs[i].previous_output = OutPoint(tx_hash(txs[k]), v - 1)
              \/ /\ outpoint_key(OutPoint(tx_hash(txs[k]), v - 1)) \in DOMAIN d.utxo
                 /\ d.utxo[outpoint_key(OutPoint(tx_hash(txs[k]), v - 1))] =
                        utxo_serialize(UtxoEntry(txs[k].outputs[v], h,
                                                 is_coinbase(txs[k])))
        /\ META_BEST_BLOCK \in DOMAIN d.metadata /\ d.metadata[META_BEST_BLOCK] = hash
        /\ META_HEIGHT \in DOMAIN d.metadata /\ d.metadata[META_HEIGHT] = U64BE(h)

\* C6: store_block(block) is all-or-nothing: when it returns Ok the block, its
\* height index entry, the tx_index entry of every transaction, the UTXO deletion
\* of every input of every non-coinbase transaction, the UTXO creation of every
\* output and the metadata are all applied; when it returns an error none of the
\* five namespaces has changed.  (store_block is called by Commit on the sealed
\* block; a crash during the call is a refused batch followed by Restart.)
C6_StoreBlockAllOrNothing ==
    [][(CommitCalled /\ current_block # None) =>
          IF req'.write_ok THEN AllApplied(db', SealedBlock) ELSE db' = db]_vars

\* store_block has stored a block that holds a spending transaction
C6_Witness ==
    /\ req.op = "commit" /\ resp.data # <<>>
    /\ resp.data \in DOMAIN db.blocks
    /\ Len(get_block(db, resp.data).some[1].transactions) >= 2

\* the blocks the store holds, the transactions they hold, and the outpoints
\* the inputs of their non-coinbase transactions reference
StoredBlockSet == {block_deserialize(db.blocks[h]).val : h \in DOMAIN db.blocks}
CommittedTxs == UNION {{B.transactions[k] : k \in 1..Len(B.transactions)} :
                       B \in StoredBlockSet}
SpentOutpoints ==
    UNION {{T.inputs[i].previous_output : i \in 1..Len(T.inputs)} :
           T \in {U \in CommittedTxs : ~is_coinbase(U)}}
HeightsOf(T) ==
    {B.header.height : B \in {C \in StoredBlockSet :
                                 \E k \in 1..Len(C.transactions) : C.transactions[k] = T}}

\* C7: for every block B committed at height h, after any sequence of later
\* operations, get_block(B.hash()) returns B and get_block_by_height(h) returns B.
C7_CommittedBlocksRetrievable ==
    \A B \in StoredBlockSet :
        /\ get_block(db, block_hash(B)) = Found(B)
        /\ get_block_by_height(db, B.header.height) = Found(B)

\* C8: the UTXO namespace holds exactly the unspent outputs: every entry
\* (txid, vout) belongs to a committed transaction T with T.hash() = txid and
\* vout < |T.outputs| that no committed transaction spends, and every output of
\* a committed transaction that no committed input references has an entry
\* carrying its block height and coinbase flag.
C8_UtxoIsUnspentOutputs ==
    /\ \A key \in DOMAIN db.utxo :
          \E T \in CommittedTxs : \E v \in 1..Len(T.outputs) :
              /\ key = outpoint_key(OutPoint(tx_hash(T), v - 1))
              /\ OutPoint(tx_hash(T), v - 1) \notin SpentOutpoints
    /\ \A T \in CommittedTxs : \A v \in 1..Len(T.outputs) :
          OutPoint(tx_hash(T), v - 1) \notin SpentOutpoints =>
              /\ outpoint_key(OutPoint(tx_hash(T), v - 1)) \in DOMAIN db.utxo
              /\ \E h \in HeightsOf(T) :
                     get_utxo(db, OutPoint(tx_hash(T), v - 1)) =
                         Found(UtxoEntry(T.outputs[v], h, is_coinbase(T)))

\* C9: once a committed transaction has spent an outpoint O, every later CheckTx
\* or DeliverTx of a transaction with an input referencing O is rejected with
\* code 1 and "UTXO not found or not spendable".
C9_SpentOutpointRejected ==
    (/\ req.op \in {"check_tx", "deliver_tx"}
     /\ tx_deserialize(req.tx).ok
     /\ \E i \in 1..Len(tx_deserialize(req.tx).val.inputs) :
            tx_deserialize(req.tx).val.inputs[i].previous_output \in SpentOutpoints)
    => (resp.code = 1 /\ resp.log = "UTXO not found or not spendable")

\* C10: for every non-coinbase transaction T in a block committed at height h and
\* every input i of T, is_utxo_spendable(i.previous_output, h) was true in the
\* store before that block was committed.
C10_CommittedInputsSpendable ==
    [][CommitStored =>
          \A k \in 1..Len(SealedBlock.transactions) :
              ~is_coinbase(SealedBlock.transactions[k]) =>
                  \A i \in 1..Len(SealedBlock.transactions[k].inputs) :
                      is_utxo_spendable(
                          db, SealedBlock.transactions[k].inputs[i].previous_output,
                          SealedBlock.header.height).val]_vars

\* the heights is_utxo_spendable is asked about: 0, the driver's heights, and
\* one below, at and one above the maturity of an entry created at each of them
SpendHeights ==
    {0} \cup Heights
        \cup {h + COINBASE_MATURITY + k : h \in Heights \cup {0}, k \in {-1, 0, 1}}

\* C11: is_utxo_spendable(outpoint, h) returns true iff an entry exists for the
\* outpoint and either it is not a coinbase entry or h >= block_height + 100;
\* for a coinbase entry created at height hc it is exactly (h >= hc + 100), and
\* for a missing outpoint it is false.
C11_SpendableIffMature ==
    \A o \in CandidateOutpoints(db) : \A h \in SpendHeights :
        is_utxo_spendable(db, o, h) =
            [err |-> FALSE,
             val |-> /\ outpoint_key(o) \in DOMAIN db.utxo
                     /\ \/ ~utxo_deserialize(db.utxo[outpoint_key(o)]).val.is_coinbase
                        \/ h >= utxo_deserialize(db.utxo[outpoint_key(o)]).val.block_height
                                    + 100]

\* the store holds a coinbase entry and a non-coinbase entry, and an outpoint
\* of a committed transaction has no entry
C11_Witness ==
    /\ \E key \in DOMAIN db.utxo : utxo_deserialize(db.utxo[key]).val.is_coinbase
    /\ \E key \in DOMAIN db.utxo : ~utxo_deserialize(db.utxo[key]).val.is_coinbase
    /\ \E o \in CandidateOutpoints(db) : outpoint_key(o) \notin DOMAIN db.utxo

\* C12: blocks are appended monotonically: every successful Commit raises
\* ChainState.height and metadata.height by exactly 1, and the committed block
\* has header.height = height of its parent + 1 and previous_hash = hash of the
\* committed block at height - 1, whatever heights BeginBlock was given.
C12_BlocksAppendedMonotonically ==
    [][/\ CommitReturned => chain_state'.height = chain_state.height + 1
       /\ CommitStored =>
          /\ get_metadata(db').height = get_metadata(db).height + 1
          /\ get_block(db, SealedBlock.header.previous_hash).some # <<>>
          /\ SealedBlock.header.height =
                 get_block(db, SealedBlock.header.previous_hash).some[1].header.height + 1
          /\ get_block_by_height(db, SealedBlock.header.height - 1).some # <<>>
          /\ SealedBlock.header.previous_hash =
                 block_hash(get_block_by_height(db, SealedBlock.header.height - 1).some[1])]_vars

\* the blocks Commit persisted: every stored block but genesis
CommittedBlocks == StoredBlockSet \ {genesis_block}

\* C13: in every block persisted by Commit the transaction list is non-empty,
\* transactions[0] is a coinbase, no transaction at an index > 0 is a coinbase,
\* and header.merkle_root is the Merkle root recomputed over all transactions
\* of the block, those delivered after BeginBlock included.
C13_CommittedBlockShape ==
    \A B \in CommittedBlocks :
        /\ Len(B.transactions) >= 1
        /\ is_coinbase(B.transactions[1])
        /\ \A k \in 2..Len(B.transactions) : ~is_coinbase(B.transactions[k])
        /\ B.header.merkle_root = calculate_merkle_root(B.transactions)

\* a block with a delivered transaction was persisted, after a coinbase was
\* offered to DeliverTx and refused
C13_Witness ==
    /\ \E B \in CommittedBlocks :
          Len(B.transactions) = 2 /\ ~is_coinbase(B.transactions[2])
    /\ req.op = "deliver_tx" /\ tx_deserialize(req.tx).ok
    /\ is_coinbase(tx_deserialize(req.tx).val) /\ tx_is_valid(tx_deserialize(req.tx).val)
    /\ resp.log = "Coinbase transactions not allowed in mempool"

\* C14: every block persisted by Commit is a valid block: its header hash
\* satisfies the proof of work, hash(header) <= target(header.bits), in addition
\* to the Merkle root and non-emptiness conditions of Block::is_valid.
C14_CommittedBlockIsValid ==
    [][CommitStored => block_is_valid(SealedBlock, req'.digest).val]_vars

\* C15: every output of every transaction in a committed block, the synthesized
\* coinbase included, has value > 0, at every height h >= 1.
C15_CommittedOutputsPositive ==
    \A B \in CommittedBlocks : \A k \in 1..Len(B.transactions) :
        \A v \in 1..Len(B.transactions[k].outputs) :
            ~AmountIsZero(B.transactions[k].outputs[v].value)

\* C16: a CheckTx that runs concurrently with a Commit observes either the
\* complete pre-commit view (tip hash, height and UTXO set) or the complete
\* post-commit view, never a mixture: the chain state its check_transaction
\* reads is the one of the tip of the store it reads.
C16_ReadersSeeOneView ==
    [][(/\ req'.op = "check_tx"
        /\ tx_deserialize(req'.tx).ok
        /\ tx_is_valid(tx_deserialize(req'.tx).val)
        /\ ~is_coinbase(tx_deserialize(req'.tx).val)) =>
          /\ chain_state.best_block_hash = get_metadata(db).best_block_hash
          /\ chain_state.height = get_metadata(db).height]_vars

\* Query "block/h" finds a block in the store d, and its hash is H
BlockAtHeightIs(d, h, H) ==
    /\ query(d, chain_state, <<"block", ToString(h)>>).code = 0
    /\ get_block_by_height(d, h).some # <<>>
    /\ block_hash(get_block_by_height(d, h).some[1]) = H

\* C17: whenever Info or Query "info" reports height h and best block hash H,
\* at that moment and at every later moment Query "block/h" finds a block, and
\* that block's hash is H.  (A report is the chain state of its moment, and every
\* entry of the height index was the tip when it was written: so the block of
\* each report is there at the moment of the report, and the block found at a
\* height never changes.)
C17_ReportedHeightHasItsBlock ==
    /\ [](/\ req.op = "info" => BlockAtHeightIs(db, resp.height, resp.data)
          /\ (req.op = "query" /\ req.path = <<"info">>) =>
                 BlockAtHeightIs(db, resp.data[1], resp.data[2])
          /\ BlockAtHeightIs(db, chain_state.height, chain_state.best_block_hash))
    /\ [][\A h \in QueryHeights :
              get_block_by_height(db, h).some # <<>> =>
                  BlockAtHeightIs(db', h, block_hash(get_block_by_height(db, h).some[1]))]_vars

\* C18: initialize_with_genesis is idempotent: calling it again leaves the store
\* as after one call, it changes nothing when metadata.height > 0, and after it
\* returns Ok on an empty store get_block_by_height(0) is the genesis block and
\* metadata has height 0 and genesis_hash = best_block_hash = genesis.hash(); a
\* SedlyApp built on that store reports height 0 and app hash = genesis hash
\* from info().
C18_GenesisInitIdempotent ==
    /\ initialize_with_genesis(initialize_with_genesis(db, genesis_block), genesis_block)
           = initialize_with_genesis(db, genesis_block)
    /\ get_metadata(db).height > 0 => initialize_with_genesis(db, genesis_block) = db
    /\ initialize_with_genesis(initialize_with_genesis(EmptyDB, genesis_block),
                               genesis_block)
           = initialize_with_genesis(EmptyDB, genesis_block)
    /\ get_block_by_height(initialize_with_genesis(EmptyDB, genesis_block), 0)
           = Found(genesis_block)
    /\ get_metadata(initialize_with_genesis(EmptyDB, genesis_block)) =
           [best_block_hash |-> block_hash(genesis_block), height |-> 0,
            total_work |-> 0, genesis_hash |-> block_hash(genesis_block)]
    /\ (req.op = "info" /\ db = initialize_with_genesis(EmptyDB, genesis_block)) =>
           (resp.height = 0 /\ resp.data = block_hash(genesis_block))

\* the application was started again over a store that holds committed blocks,
\* and info() answered
C18_Witness ==
    /\ req.op = "info"
    /\ get_metadata(db).height > 0
    /\ StoredBlocks >= 2
    /\ db.metadata[META_GENESIS_HASH] = block_hash(genesis_block)
    /\ chain_state.total_transactions = 0

\* C19: CheckTx returns code 2 when the bytes do not decode; code 1 with a reason
\* when the transaction is structurally invalid, is a coinbase ("not allowed in
\* mempool") or has an input for which is_utxo_spendable at the current height
\* is false; otherwise code 0 with gas_wanted = gas_used = serialized size.
\* CheckTx never changes builder, chain state or store.
C19_CheckTxCodes ==
    [][req'.op = "check_tx" =>
          /\ <<db', chain_state', current_block'>> = <<db, chain_state, current_block>>
          /\ IF ~tx_deserialize(req'.tx).ok
             THEN resp'.code = 2
             ELSE LET tx == tx_deserialize(req'.tx).val IN
                  IF \/ ~tx_is_valid(tx)
                     \/ is_coinbase(tx)
                     \/ \E i \in 1..Len(tx.inputs) :
                           ~is_utxo_spendable(db, tx.inputs[i].previous_output,
                                              chain_state.height).val
                  THEN /\ resp'.code = 1
                       /\ resp'.log # ""
                       /\ is_coinbase(tx) /\ tx_is_valid(tx) =>
                              resp'.log = "Coinbase transactions not allowed in mempool"
                  ELSE /\ resp'.code = 0
                       /\ resp'.gas_wanted = tx_size(tx)
                       /\ resp'.gas_used = tx_size(tx)]_vars

\* CheckTx accepted a transaction that spends a mature output
C19_Witness ==
    /\ req.op = "check_tx" /\ resp.code = 0
    /\ resp.gas_used = tx_size(tx_deserialize(req.tx).val)
    /\ resp.gas_used > 0
    /\ Len(tx_deserialize(req.tx).val.inputs) = 1

C21_CodesKeepOneMeaning ==
    Answered =>
        /\ resp.code \in 0..5
        /\ resp.code = 1 =>
               /\ req.op \in {"check_tx", "deliver_tx"}
               /\ tx_deserialize(req.tx).ok
        /\ resp.code = 2 =>
               /\ req.op \in {"check_tx", "deliver_tx"}
               /\ ~tx_deserialize(req.tx).ok
        /\ resp.code = 3 =>
               /\ req.op = "deliver_tx"
               /\ current_block = None
        /\ resp.code = 4 =>
               /\ req.op = "query"
               /\ Len(req.path) = 2 /\ req.path[1] = "block"
               /\ ParseU64(req.path[2]) = None
        /\ resp.code = 5 =>
               /\ req.op = "query"
               /\ req.path # <<"info">>
               /\ ~(Len(req.path) = 2 /\ req.path[1] = "block")
        /\ resp.code # 0 => resp.codespace = "sedly"
        /\ resp.code = 0 => resp.codespace = ""

(***************************************************************************)
(* The difficulty controller called on its own: windows of headers and a   *)
(* current bits value go in, a DifficultyAdjustment or an error comes out. *)
(***************************************************************************)
MaxRetargets == 3

\* current_bits handed to the first call: the genesis bits and compact values
\* whose target lies in the low eight bytes that scale_target reads
StartBits == {GENESIS_BITS, 4 * 2^24 + 1, 4 * 2^24 + 65535, 3 * 2^24 + 256}
\* seconds between the headers of a window: 143 * 120 is the expected time
TimeIntervals == {0, 30, 31, 60, 120, 240, 480, 1000}
\* a window that is too short, and a full one
WindowLengths == {100, DIFFICULTY_ADJUSTMENT_INTERVAL}

\* n more rounds of the loop of create_test_blocks after the blocks pushed so
\* far (the first half of the rounds, then the rest): a round pushes a block
\* that names the hash of the last block, or the zero hash when it is the first
RECURSIVE PushTestBlocks(_, _, _, _)
PushTestBlocks(blocks, n, time_interval, bits) ==
    IF n = 0 THEN blocks
    ELSE IF n = 1
    THEN Append(blocks,
                Block_new(IF blocks = <<>> THEN ZERO_HASH
                          ELSE block_hash(blocks[Len(blocks)]),
                          <<genesis_tx>>, bits, Len(blocks),
                          GENESIS_TIMESTAMP + Len(blocks) * time_interval))
    ELSE Eager(PushTestBlocks(blocks, n \div 2, time_interval, bits), LAMBDA pushed :
             PushTestBlocks(pushed, n - n \div 2, time_interval, bits))

\* the recent_blocks argument, as create_test_blocks builds it: count
\* consecutive blocks time_interval apart, every block on the hash of the one
\* before it
Window(count, time_interval, bits) == PushTestBlocks(<<>>, count, time_interval, bits)

Retargeted == resp.op = "calculate_next_difficulty" /\ resp.ok

\* the calls made on the controller so far
Round == IF req.op \in {"calculate_next_difficulty", "bits_round_trip"}
         THEN req.round ELSE 0
\* the bits the caller of the controller holds: a starting value, then the
\* new_bits of the last decision (the bits stay when a call makes none)
HeldBits ==
    IF resp.op = "calculate_next_difficulty"
    THEN {IF resp.ok THEN resp.new_bits ELSE resp.current_bits}
    ELSE IF resp.op = "bits_round_trip" THEN {req.bits}
    ELSE StartBits

\* one call of DifficultyAdjuster::calculate_next_difficulty
CalculateNextDifficulty(current_bits, count, time_interval) ==
    /\ commit_pc = None
    /\ current_bits \in HeldBits
    /\ With(Round, LAMBDA round :
        /\ round < MaxRetargets
        /\ req' = [op |-> "calculate_next_difficulty", current_bits |-> current_bits,
                   count |-> count, time_interval |-> time_interval,
                   round |-> round + 1]
        /\ resp' = Eager(calculate_next_difficulty(
                            Window(count, time_interval, current_bits), current_bits),
                        LAMBDA a :
                            [op |-> "calculate_next_difficulty", panic |-> a.panic,
                             ok |-> a.ok, current_bits |-> current_bits,
                             new_bits |-> a.new_bits, factor |-> a.factor,
                             needs_adjustment |-> a.needs_adjustment]))
    /\ UNCHANGED <<db, chain_state, current_block, commit_pc, check_pc, miner, state_manager>>

\* target_to_bits(bits_to_target(bits)): [panic, bits]
bits_round_trip(bits) ==
    With(bits_to_target(bits), LAMBDA t :
        IF t.panic THEN [panic |-> TRUE, bits |-> 0] ELSE target_to_bits(t.target))

\* the compact value the controller holds is decoded and encoded again
BitsRoundTrip(bits) ==
    /\ commit_pc = None
    /\ \/ bits = genesis_difficulty
       \/ Retargeted /\ bits = resp.new_bits
    /\ UNCHANGED <<miner, state_manager>>
    /\ req' = [op |-> "bits_round_trip", bits |-> bits, round |-> Round]
    /\ resp' = [op |-> "bits_round_trip", ok |-> FALSE,
                panic |-> bits_round_trip(bits).panic,
                bits |-> bits_round_trip(bits).bits]
    /\ UNCHANGED <<db, chain_state, current_block, commit_pc, check_pc>>

NextRetarget ==
    \/ \E current_bits \in HeldBits, count \in WindowLengths, time_interval \in TimeIntervals :
           CalculateNextDifficulty(current_bits, count, time_interval)
    \/ \E bits \in {genesis_difficulty} \cup (IF Retargeted THEN {resp.new_bits} ELSE {}) :
           BitsRoundTrip(bits)

SpecRetarget == Init /\ [][NextRetarget]_vars

ExpectedTime == TARGET_BLOCK_TIME * (DIFFICULTY_ADJUSTMENT_INTERVAL - 1)
ActualTime == (req.count - 1) * req.time_interval

\* C22: every retarget decision of calculate_next_difficulty emits an adjustment
\* factor inside [0.25, 4.0], also when the actual time is 0 or very large, and
\* when the actual time equals the expected time the new bits equal the current
\* bits and needs_adjustment is false.
C22_FactorClampedAndNeutral ==
    Retargeted =>
        /\ 4 * resp.factor.num >= resp.factor.den
        /\ resp.factor.num <= 4 * resp.factor.den
        /\ ActualTime = ExpectedTime =>
               /\ resp.new_bits = resp.current_bits
               /\ ~resp.needs_adjustment

C22_Witness ==
    /\ Retargeted
    /\ ActualTime = 0
    /\ resp.factor = [num |-> 4, den |-> 1]

\* strict order of two targets as 32-byte big-endian numbers
TargetLess(a, b) == a # b /\ ArrayLeq(a, b, 1)

\* C23: when the factor is not 1 the new bits encode the current target scaled
\* by 1/factor: a too-fast window (factor > 1) gives needs_adjustment = true and
\* new_bits < current_bits with a smaller, non-zero target; a too-slow window
\* (factor < 1) gives a target larger than the current one.  This holds starting
\* from the genesis bits.
C23_RetargetFollowsFactor ==
    (Retargeted /\ resp.factor.num # resp.factor.den) =>
        /\ resp.factor.num > resp.factor.den =>
               /\ resp.needs_adjustment
               /\ resp.new_bits < resp.current_bits
               /\ bits_to_target(resp.new_bits).target # ZeroTarget
               /\ TargetLess(bits_to_target(resp.new_bits).target,
                             bits_to_target(resp.current_bits).target)
        /\ resp.factor.num < resp.factor.den =>
               TargetLess(bits_to_target(resp.current_bits).target,
                          bits_to_target(resp.new_bits).target)

\* C24: target_to_bits(bits_to_target(b)) = b for every bits value b the
\* controller can produce (the genesis bits and every value target_to_bits
\* returns on a scaled target), and neither the controller nor the round trip
\* makes an out-of-range access.
C24_BitsRoundTrip ==
    /\ resp.op = "calculate_next_difficulty" => ~resp.panic
    /\ resp.op = "bits_round_trip" => ~resp.panic /\ resp.bits = req.bits

(***************************************************************************)
(* The handlers that build a block, under a driver whose heights lie on    *)
(* both sides of halving boundaries, up to the 65th.                       *)
(***************************************************************************)
RewardHeights ==
    {1} \cup {HALVING_INTERVAL * halvings - k :
                  halvings \in {1, 2, 20, 32, 33, 34, 63, 64, 65}, k \in {0, 1}}

NextReward ==
    \/ Info
    \/ \E height \in RewardHeights, time \in Timestamps : BeginBlock(height, time)
    \/ \E raw \in RawTxs(db) : BuilderHasRoom /\ DeliverTx(raw)
    \/ \E height \in RewardHeights : EndBlock(height)

SpecReward == Init /\ [][NextReward]_vars

\* an amount halved k times, eight bits or one bit at a time
RECURSIVE Halved(_, _)
Halved(amount, k) ==
    IF k = 0 THEN amount
    ELSE IF k >= 8
    THEN Halved(U64(amount.hi \div 256,
                    (amount.hi % 256) * (LIMB \div 256) + amount.lo \div 256), k - 8)
    ELSE Halved(U64(amount.hi \div 2, (amount.hi % 2) * (LIMB \div 2) + amount.lo \div 2),
                k - 1)

AmountLeq(a, b) == a.hi < b.hi \/ (a.hi = b.hi /\ a.lo <= b.lo)

\* the value the coinbase of a builder pays
BuilderReward(cb) == cb[1].transactions[1].outputs[1].value

\* C25: for every height h the block reward is INITIAL_BLOCK_REWARD halved
\* h / 210000 times when h / 210000 < 64 and 0 otherwise, the reward never
\* increases with the height, and the coinbase synthesized by BeginBlock(h) pays
\* exactly that value in its single output.
C25_RewardSchedule ==
    /\ [](current_block # None =>
            /\ is_coinbase(current_block[1].transactions[1])
            /\ Len(current_block[1].transactions[1].outputs) = 1
            /\ BuilderReward(current_block) =
                   IF current_block[1].height \div HALVING_INTERVAL >= 64 THEN U64(0, 0)
                   ELSE Halved(INITIAL_BLOCK_REWARD,
                               current_block[1].height \div HALVING_INTERVAL))
    /\ [][(current_block # None /\ current_block' # None
              /\ current_block[1].height <= current_block'[1].height)
           => AmountLeq(BuilderReward(current_block'), BuilderReward(current_block))]_vars

C25_Witness ==
    /\ current_block # None
    /\ current_block[1].height = 2 * HALVING_INTERVAL
    /\ req.op = "begin_block"
    /\ BuilderReward(current_block) = U64(1192, 97408)

(***************************************************************************)
(* Mining (core/src/mining.rs).  A call of mine_block or                   *)
(* mine_block_threaded runs on its own thread, stop() comes from another   *)
(* one, and every worker of mine_block_threaded is a thread.  One step of   *)
(* a thread is the load of should_stop at the head of its loop, the        *)
(* fetch_add on nonce_counter that follows it, or one nonce tried; other   *)
(* threads run between the load and the fetch_add.  The 32 bytes a header  *)
(* hashes to are an input of the step that tries the nonce.  A batch has   *)
(* BatchSize nonces, and no thread goes on from the head of its loop once  *)
(* the counter is at MaxNonce or above.  A thread reads the                 *)
(* clock again and puts the reading in its header after every              *)
(* RefreshBatches batches of its own (ten in the program: 1_000_000 hashes *)
(* of 100_000 a batch in mine_block, 100_000 hashes of 10_000 a batch in a *)
(* worker); a clock reading is an input of the step.                        *)
(***************************************************************************)
BatchSize == 2
MaxNonce == 6
MaxThreads == 2
RefreshBatches == 2
\* clock readings of a mining call: MaxMinerClock block intervals after genesis
MaxMinerClock == 2
MinerClock == {GENESIS_TIMESTAMP + TARGET_BLOCK_TIME * k : k \in 1..MaxMinerClock}
\* Miner::current_timestamp is due after this many hashes of a thread
RefreshHashes == RefreshBatches * BatchSize

\* the target of test_mining_easy_target
EasyTarget == [k \in 1..32 |-> IF k = 1 THEN 15 ELSE 255]
MinerTargets == {EasyTarget, bits_to_target(GENESIS_BITS).target}
\* header hashes: below every target, between the two targets, above both
MinerDigests == {ZeroTarget, EasyTarget, [k \in 1..32 |-> 255]}
\* bits handed to with_difficulty_bits: the genesis bits, and an exponent of 33
MinerBits == {GENESIS_BITS, 33 * 2^24 + 1}

InitMining ==
    /\ InitApp
    /\ miner \in {Miner_new(target, threads) :
                      target \in MinerTargets, threads \in 0..MaxThreads}
                 \cup {built.miner[1] :
                           built \in {r \in {with_difficulty_bits(bits, threads) :
                                                 bits \in MinerBits,
                                                 threads \in 0..MaxThreads} :
                                          ~r.panic}}
    /\ state_manager = StateManager_new(ConsensusState_default)

\* a call is in progress on the miner
Mining == miner.call # None /\ miner.call[1].pc # "returned"
MiningAt(kind, pc) == Mining /\ miner.call[1].kind = kind /\ miner.call[1].pc = pc

\* Miner::check_proof_of_work, hash being header.hash()
check_proof_of_work(target, hash) == ArrayLeq(hash, target, 1)

\* the header template of a call
header_template(call, now) ==
    BlockHeader(PROTOCOL_VERSION, call.previous_hash,
                calculate_merkle_root(call.transactions), now, call.bits, 0, call.height)

MiningOk(header, transactions, hash) ==
    [ok |-> TRUE, block |-> [header |-> header, transactions |-> transactions],
     hash |-> hash, error |-> ""]
MiningErr(error) == [ok |-> FALSE, block |-> <<>>, hash |-> <<>>, error |-> error]

\* a thread enters mine_block or mine_block_threaded
MineCall(kind) ==
    /\ ~Mining
    /\ miner' = [miner EXCEPT
           !.call = Some([kind |-> kind, pc |-> "start", previous_hash |-> ZERO_HASH,
                          transactions |-> <<genesis_tx>>, height |-> 1,
                          bits |-> GENESIS_BITS, header |-> <<>>,
                          start_nonce |-> 0, nonce_offset |-> 0,
                          total_hashes |-> 0]),
           !.workers = <<>>, !.channel = <<>>, !.result = None,
           !.stop_requested = FALSE, !.hashed = <<>>]
    /\ UNCHANGED <<db, chain_state, current_block, req, resp, commit_pc, check_pc, state_manager>>

\* Miner::stop
Stop ==
    /\ miner' = [miner EXCEPT !.should_stop = TRUE,
                              !.stop_requested = @ \/ (Mining /\ miner.channel = <<>>)]
    /\ UNCHANGED <<db, chain_state, current_block, req, resp, commit_pc, check_pc, state_manager>>

\* mine_block: the reset of the flag and the counter, and the template
MineBlockReset(now) ==
    /\ MiningAt("mine_block", "start")
    /\ miner' = [miner EXCEPT !.should_stop = FALSE, !.nonce_counter = 0,
                              !.call[1].header = header_template(miner.call[1], now),
                              !.call[1].pc = "loop"]
    /\ UNCHANGED <<db, chain_state, current_block, req, resp, commit_pc, check_pc, state_manager>>

\* mine_block: the head of the loop, should_stop.load
MineBlockLoop ==
    /\ MiningAt("mine_block", "loop")
    /\ IF miner.should_stop
       THEN miner' = [miner EXCEPT !.result = Some(MiningErr("Stopped")),
                                   !.call[1].pc = "returned"]
       ELSE /\ miner.nonce_counter < MaxNonce
            /\ miner' = [miner EXCEPT !.call[1].pc = "fetch"]
    /\ UNCHANGED <<db, chain_state, current_block, req, resp, commit_pc, check_pc, state_manager>>

\* mine_block: nonce_counter.fetch_add(batch_size)
MineBlockFetch ==
    /\ MiningAt("mine_block", "fetch")
    /\ miner' = [miner EXCEPT !.nonce_counter = @ + BatchSize,
                              !.call[1].start_nonce = miner.nonce_counter,
                              !.call[1].nonce_offset = 0,
                              !.call[1].pc = "batch"]
    /\ UNCHANGED <<db, chain_state, current_block, req, resp, commit_pc, check_pc, state_manager>>

\* the header a thread hashes next
NextHeader(t) == [t.header EXCEPT !.nonce = t.start_nonce + t.nonce_offset]
\* one more hash of the header with a nonce
CountHash(hashed, nonce) ==
    IF nonce \in DOMAIN hashed THEN [hashed EXCEPT ![nonce] = @ + 1]
    ELSE hashed @@ (nonce :> 1)
\* where a thread goes after a nonce that failed
AfterNonce(t) == IF t.nonce_offset + 1 = BatchSize THEN "loop" ELSE "batch"
\* the header of a thread after a nonce that failed, the hashes of the thread
\* counted: the clock reading now replaces the timestamp when refresh holds
AfterHash(t, refresh, now) ==
    IF refresh THEN [NextHeader(t) EXCEPT !.timestamp = now] ELSE NextHeader(t)

\* mine_block: one nonce of the batch; after a nonce that failed the timestamp
\* is read again when total_hashes is a multiple of the refresh period
MineBlockTry(hash, now) ==
    /\ MiningAt("mine_block", "batch")
    /\ IF check_proof_of_work(miner.target, hash)
       THEN miner' = [miner EXCEPT
                !.result = Some(MiningOk(NextHeader(miner.call[1]),
                                         miner.call[1].transactions, hash)),
                !.hashed = CountHash(@, NextHeader(miner.call[1]).nonce),
                !.call[1].header = NextHeader(miner.call[1]),
                !.call[1].total_hashes = @ + 1,
                !.call[1].pc = "returned"]
       ELSE miner' = [miner EXCEPT
                !.hashed = CountHash(@, NextHeader(miner.call[1]).nonce),
                !.call[1].header =
                    AfterHash(miner.call[1],
                              (miner.call[1].total_hashes + 1) % RefreshHashes = 0, now),
                !.call[1].total_hashes = @ + 1,
                !.call[1].nonce_offset = @ + 1,
                !.call[1].pc = AfterNonce(miner.call[1])]
    /\ UNCHANGED <<db, chain_state, current_block, req, resp, commit_pc, check_pc, state_manager>>

\* mine_block_threaded: the reset, the template, the channel and the spawns
Spawn(now) ==
    /\ MiningAt("mine_block_threaded", "start")
    /\ miner' = [miner EXCEPT
           !.should_stop = FALSE, !.nonce_counter = 0,
           !.call[1].header = header_template(miner.call[1], now),
           !.call[1].pc = "recv",
           !.workers = [w \in 1..miner.threads |->
                           [pc |-> "loop", header |-> header_template(miner.call[1], now),
                            start_nonce |-> 0, nonce_offset |-> 0,
                            local_hashes |-> 0]]]
    /\ UNCHANGED <<db, chain_state, current_block, req, resp, commit_pc, check_pc, state_manager>>

\* a worker: the head of its loop, should_stop.load; the worker breaks out of
\* the loop when it reads true and goes on to the fetch_add when it reads false
WorkerLoop(w) ==
    /\ w \in DOMAIN miner.workers
    /\ miner.workers[w].pc = "loop"
    /\ IF miner.should_stop
       THEN miner' = [miner EXCEPT !.workers[w].pc = "done"]
       ELSE /\ miner.nonce_counter < MaxNonce
            /\ miner' = [miner EXCEPT !.workers[w].pc = "fetch"]
    /\ UNCHANGED <<db, chain_state, current_block, req, resp, commit_pc, check_pc, state_manager>>

\* a worker whose fetch moves the counter on by one nonce only
WorkerFetch_short_step(w) ==
    /\ w \in DOMAIN miner.workers
    /\ miner.workers[w].pc = "fetch"
    /\ miner' = [miner EXCEPT !.nonce_counter = @ + 1,
                              !.workers[w].start_nonce = miner.nonce_counter,
                              !.workers[w].nonce_offset = 0,
                              !.workers[w].pc = "batch"]
    /\ UNCHANGED <<db, chain_state, current_block, req, resp, commit_pc, check_pc, state_manager>>

\* a worker: nonce_counter.fetch_add(10000), whatever should_stop has become
\* since the worker read it
WorkerFetch(w) ==
    /\ w \in DOMAIN miner.workers
    /\ miner.workers[w].pc = "fetch"
    /\ miner' = [miner EXCEPT !.nonce_counter = @ + BatchSize,
                              !.workers[w].start_nonce = miner.nonce_counter,
                              !.workers[w].nonce_offset = 0,
                              !.workers[w].pc = "batch"]
    /\ UNCHANGED <<db, chain_state, current_block, req, resp, commit_pc, check_pc, state_manager>>

\* a worker: one nonce of its batch; after the last nonce of a batch the
\* timestamp is read again when local_hashes is a multiple of the refresh period
WorkerTry(w, hash, now) ==
    /\ w \in DOMAIN miner.workers
    /\ miner.workers[w].pc = "batch"
    /\ IF check_proof_of_work(miner.target, hash)
       THEN miner' = [miner EXCEPT
                !.channel = Append(@, MiningOk(NextHeader(miner.workers[w]),
                                               miner.call[1].transactions, hash)),
                !.hashed = CountHash(@, NextHeader(miner.workers[w]).nonce),
                !.workers[w].header = NextHeader(miner.workers[w]),
                !.workers[w].local_hashes = @ + 1,
                !.workers[w].pc = "done"]
       ELSE miner' = [miner EXCEPT
                !.hashed = CountHash(@, NextHeader(miner.workers[w]).nonce),
                !.workers[w].header =
                    AfterHash(miner.workers[w],
                              /\ AfterNonce(miner.workers[w]) = "loop"
                              /\ (miner.workers[w].local_hashes + 1) % RefreshHashes = 0,
                              now),
                !.workers[w].local_hashes = @ + 1,
                !.workers[w].nonce_offset = @ + 1,
                !.workers[w].pc = AfterNonce(miner.workers[w])]
    /\ UNCHANGED <<db, chain_state, current_block, req, resp, commit_pc, check_pc, state_manager>>

\* mine_block_threaded whose timeout leaves the flag alone
RecvTimeout_keep_flag ==
    /\ MiningAt("mine_block_threaded", "recv")
    /\ IF miner.channel # <<>>
       THEN miner' = [miner EXCEPT !.should_stop = TRUE,
                                   !.result = Some(miner.channel[1]),
                                   !.call[1].pc = "join"]
       ELSE miner' = [miner EXCEPT !.result = Some(MiningErr("Timeout")),
                                   !.call[1].pc = "join"]
    /\ UNCHANGED <<db, chain_state, current_block, req, resp, commit_pc, check_pc, state_manager>>

\* mine_block_threaded: rx.recv_timeout returns the first result sent, or the
\* 300 s pass with nothing sent
RecvTimeout ==
    /\ MiningAt("mine_block_threaded", "recv")
    /\ IF miner.channel # <<>>
       THEN miner' = [miner EXCEPT !.should_stop = TRUE,
                                   !.result = Some(miner.channel[1]),
                                   !.call[1].pc = "join"]
       ELSE miner' = [miner EXCEPT !.should_stop = TRUE,
                                   !.result = Some(MiningErr("Timeout")),
                                   !.call[1].pc = "join"]
    /\ UNCHANGED <<db, chain_state, current_block, req, resp, commit_pc, check_pc, state_manager>>

\* mine_block_threaded: every handle is joined and the result returned
Join ==
    /\ MiningAt("mine_block_threaded", "join")
    /\ \A w \in DOMAIN miner.workers : miner.workers[w].pc = "done"
    /\ miner' = [miner EXCEPT !.call[1].pc = "returned"]
    /\ UNCHANGED <<db, chain_state, current_block, req, resp, commit_pc, check_pc, state_manager>>

NextMining ==
    \/ \E kind \in {"mine_block", "mine_block_threaded"} : MineCall(kind)
    \/ Stop
    \/ \E now \in MinerClock : MineBlockReset(now)
    \/ MineBlockLoop
    \/ MineBlockFetch
    \/ \E hash \in MinerDigests, now \in MinerClock : MineBlockTry(hash, now)
    \/ \E now \in MinerClock : Spawn(now)
    \/ \E w \in 1..MaxThreads : WorkerLoop(w)
    \/ \E w \in 1..MaxThreads : WorkerFetch(w)
    \/ \E w \in 1..MaxThreads, hash \in MinerDigests, now \in MinerClock :
           WorkerTry(w, hash, now)
    \/ RecvTimeout
    \/ Join

SpecMining == InitMining /\ [][NextMining]_vars

\* every thread that can take a step is scheduled sooner or later, and the
\* 300 s of recv_timeout pass
SpecMiningFair ==
    /\ SpecMining
    /\ \A w \in 1..MaxThreads :
           WF_vars(WorkerLoop(w)
                   \/ WorkerFetch(w)
                   \/ \E hash \in MinerDigests, now \in MinerClock :
                          WorkerTry(w, hash, now))
    /\ WF_vars(\E now \in MinerClock : Spawn(now))
    /\ WF_vars(RecvTimeout)
    /\ WF_vars(Join)

Returned == miner.call # None /\ miner.call[1].pc = "returned"

\* C26: every successful result of mine_block or mine_block_threaded is a block
\* whose header hash is <= the target of the bits argument of the call and whose
\* header carries the previous_hash, height and bits of the call and the Merkle
\* root of its transactions, for every Miner the constructors can build.
C26_MinedBlockMeetsBits ==
    (Returned /\ miner.result[1].ok) =>
        /\ ArrayLeq(miner.result[1].hash, bits_to_target(miner.call[1].bits).target, 1)
        /\ miner.result[1].block.header.previous_hash = miner.call[1].previous_hash
        /\ miner.result[1].block.header.height = miner.call[1].height
        /\ miner.result[1].block.header.bits = miner.call[1].bits
        /\ miner.result[1].block.header.merkle_root =
               calculate_merkle_root(miner.call[1].transactions)
        /\ miner.result[1].block.transactions = miner.call[1].transactions

\* C27: a run during which stop() was called before any solution was found ends
\* with Stopped: the stop request is not lost, whatever its interleaving with
\* the start of the run.
C27_StopIsNotLost ==
    (Returned /\ miner.stop_requested) =>
        ~miner.result[1].ok /\ miner.result[1].error = "Stopped"

\* C28: in one mine_block_threaded run at most one solution is sent on the
\* result channel.
C28_AtMostOneSolution == Len(miner.channel) <= 1

ThreadedReturned == Returned /\ miner.call[1].kind = "mine_block_threaded"

\* C29: mine_block_threaded always returns; the driver joins with the stop
\* flag set (after the first solution received or the timeout), and from then
\* on a worker that comes to the head of its loop leaves the loop there, so
\* that the only batch a worker still runs is the one it is in or the one it
\* had read the flag for before the flag was set: every worker terminates
\* within one batch; when the call returns no worker is still running, and the
\* value returned is the first solution sent on the channel, or Timeout.
C29_ThreadedRunReturns ==
    /\ [](ThreadedReturned =>
            /\ \A w \in DOMAIN miner.workers : miner.workers[w].pc = "done"
            /\ Len(miner.workers) = miner.threads
            /\ miner.should_stop
            /\ IF miner.result[1].ok
               THEN miner.channel # <<>> /\ miner.result[1] = miner.channel[1]
               ELSE miner.result[1].error = "Timeout")
    /\ [](MiningAt("mine_block_threaded", "join") => miner.should_stop)
    /\ [][MiningAt("mine_block_threaded", "join") =>
              \A w \in DOMAIN miner.workers :
                  /\ miner.workers[w].pc = "loop" =>
                         miner'.workers[w].pc \in {"loop", "done"}
                  /\ miner.workers[w].pc = "done" => miner'.workers[w].pc = "done"
                  /\ miner.workers[w].pc = "batch" =>
                         /\ miner'.workers[w].pc \in {"batch", "loop", "done"}
                         /\ miner'.workers[w].start_nonce = miner.workers[w].start_nonce]_vars
    /\ (MiningAt("mine_block_threaded", "start") ~> ThreadedReturned)

C29_Witness ==
    /\ ThreadedReturned
    /\ miner.threads = 2
    /\ miner.result[1].ok
    /\ miner.workers[2].start_nonce = BatchSize

(***************************************************************************)
(* The consensus state manager (consensus/src/state.rs): the snapshot, its *)
(* serialization, validate_state and the mutators.  A validator id is a    *)
(* Rust String, held here as its UTF-8 bytes.                              *)
(***************************************************************************)
MaxStateCalls == 103

ValidatorInfo(public_key, power, active) ==
    [public_key |-> public_key, power |-> power, active |-> active]

\* the orders in which a HashMap yields its entries: every map has a hasher
\* with a seed of its own, and the order of iteration follows the hashes
IterationOrders(validators) ==
    {order \in [1..Cardinality(DOMAIN validators) -> DOMAIN validators] :
        \A i, j \in DOMAIN order : i # j => order[i] # order[j]}

\* bincode of the validators, the map entries in the order the map yields them
RECURSIVE SerValidators(_, _)
SerValidators(validators, order) ==
    IF DOMAIN order = {} THEN <<>>
    ELSE With(order[1], LAMBDA id :
             SerBytes(id) \o SerBytes(validators[id].public_key)
                 \o <<validators[id].power, IF validators[id].active THEN 1 ELSE 0>>
                 \o SerValidators(validators, Tail(order)))

\* a serialization that leaves the validator set out
state_serialize_no_validators(state, order) ==
    <<state.height>> \o SerHash(state.best_block_hash)
        \o <<state.difficulty_bits, state.total_transactions, 0>>
        \o SerHash(state.app_hash)

\* bincode of a ConsensusState whose validators map iterates in the given order
state_serialize(state, order) ==
    <<state.height>> \o SerHash(state.best_block_hash)
        \o <<state.difficulty_bits, state.total_transactions,
             Cardinality(DOMAIN state.validators)>>
        \o SerValidators(state.validators, order) \o SerHash(state.app_hash)

\* bool: a byte that is 0 or 1
ParseBool(s) ==
    IF Len(s) >= 1 /\ s[1] \in {0, 1} THEN ParseOk(s[1] = 1, Drop(s, 1)) ELSE ParseFail

\* the length of the well-formed UTF-8 character a byte sequence starts with,
\* 0 when it starts with none (a stray or missing continuation byte, an
\* overlong form, a surrogate, a code point above U+10FFFF)
Utf8CharLen(s) ==
    IF s[1] <= 127 THEN 1
    ELSE IF s[1] >= 194 /\ s[1] <= 223
    THEN IF Len(s) >= 2 /\ s[2] >= 128 /\ s[2] <= 191 THEN 2 ELSE 0
    ELSE IF s[1] >= 224 /\ s[1] <= 239
    THEN IF /\ Len(s) >= 3
            /\ s[2] >= (IF s[1] = 224 THEN 160 ELSE 128)
            /\ s[2] <= (IF s[1] = 237 THEN 159 ELSE 191)
            /\ s[3] >= 128 /\ s[3] <= 191
         THEN 3 ELSE 0
    ELSE IF s[1] >= 240 /\ s[1] <= 244
    THEN IF /\ Len(s) >= 4
            /\ s[2] >= (IF s[1] = 240 THEN 144 ELSE 128)
            /\ s[2] <= (IF s[1] = 244 THEN 143 ELSE 191)
            /\ s[3] >= 128 /\ s[3] <= 191
            /\ s[4] >= 128 /\ s[4] <= 191
         THEN 4 ELSE 0
    ELSE 0

\* String::from_utf8 accepts the bytes
RECURSIVE IsUtf8(_)
IsUtf8(s) ==
    IF s = <<>> THEN TRUE
    ELSE With(Utf8CharLen(s), LAMBDA n : n # 0 /\ IsUtf8(Drop(s, n)))

\* a String: a length, that many bytes, and the bytes are UTF-8
ParseString(s) ==
    Bind(ParseVecU8(s), LAMBDA bytes :
        IF IsUtf8(bytes.val) THEN bytes ELSE ParseFail)

\* the entries of HashMap<String, ValidatorInfo>; of two entries with one key
\* the later one stays
RECURSIVE ParseValidators(_, _)
ParseValidators(s, n) ==
    IF n = 0 THEN ParseOk(<<>>, s) ELSE
    Bind(ParseString(s), LAMBDA id :
    Bind(ParseVecU8(id.rest), LAMBDA key :
    Bind(ParseInt(key.rest), LAMBDA power :
    Bind(ParseBool(power.rest), LAMBDA active :
    Bind(ParseValidators(active.rest, n - 1), LAMBDA more :
    ParseOk(more.val @@ (id.val :> ValidatorInfo(key.val, power.val, active.val)),
            more.rest))))))

state_deserialize(data) ==
    Bind(ParseInt(data), LAMBDA height :
    Bind(ParseHash(height.rest), LAMBDA best :
    Bind(ParseInt(best.rest), LAMBDA bits :
    Bind(ParseInt(bits.rest), LAMBDA total :
    Bind(ParseLen(total.rest), LAMBDA n :
    Bind(ParseValidators(n.rest, n.val), LAMBDA validators :
    Bind(ParseHash(validators.rest), LAMBDA app :
    ParseOk([height |-> height.val, best_block_hash |-> best.val,
             difficulty_bits |-> bits.val, total_transactions |-> total.val,
             validators |-> validators.val, app_hash |-> app.val], app.rest))))))))

\* StateError::InvalidState(format!(err, id)): the message is err with id in
\* the place of its {}; id is <<>> for a message without one
InvalidState(err, id) == [err |-> err, id |-> id]
\* Ok(())
StateOk == InvalidState("", <<>>)

\* validate_state, the loop over the validators: the map yields them in the
\* given order and the first one that fails a test ends the loop
RECURSIVE ValidateValidators(_, _)
ValidateValidators(validators, order) ==
    IF order = <<>> THEN StateOk
    ELSE With(order[1], LAMBDA id :
             IF id = <<>> THEN InvalidState("Validator ID cannot be empty", <<>>)
             ELSE IF validators[id].public_key = <<>>
             THEN InvalidState("Validator {} has empty public key", id)
             ELSE ValidateValidators(validators, Tail(order)))

\* StateManager::validate_state on a state whose validators map iterates in
\* the given order: the error, StateOk for Ok
validate_state(state, order) ==
    IF state.best_block_hash = ZERO_HASH /\ state.height > 0
    THEN InvalidState("Non-genesis block cannot have zero hash", <<>>)
    ELSE IF state.difficulty_bits = 0
    THEN InvalidState("Difficulty bits cannot be zero", <<>>)
    ELSE ValidateValidators(state.validators, order)

\* the closures handed to update_state by advance_block, update_validator and
\* remove_validator, one that fails at once and one that fails after it has
\* written to the state: [state, err]
apply_mutator(state, mutator) ==
    IF mutator.op = "advance_block"
    THEN [state |-> [state EXCEPT
                        !.height = @ + 1,
                        !.best_block_hash = mutator.new_block_hash,
                        !.total_transactions = @ + mutator.transactions_count,
                        !.difficulty_bits = IF mutator.new_difficulty # None
                                            THEN mutator.new_difficulty[1] ELSE @,
                        !.app_hash = Sha256(mutator.new_block_hash
                                                \o U64BE(state.height + 1))],
          err |-> ""]
    ELSE IF mutator.op = "update_validator"
    THEN [state |-> [state EXCEPT
                        !.validators = (mutator.validator_id :>
                                            ValidatorInfo(mutator.public_key, mutator.power,
                                                          mutator.active)) @@ @],
          err |-> ""]
    ELSE IF mutator.op = "remove_validator"
    THEN [state |-> [state EXCEPT
                        !.validators = [id \in DOMAIN @ \ {mutator.validator_id} |-> @[id]]],
          err |-> ""]
    ELSE IF mutator.op = "fail_after_change"
    THEN [state |-> [state EXCEPT !.total_transactions = @ + 1], err |-> "UpdateFailed"]
    ELSE [state |-> state, err |-> "UpdateFailed"]

\* a history that grows without limit
push_history_no_trim(history, current_state, max_history) ==
    Append(history, current_state)

\* update_state: history.push(current_state) and the trim
push_history(history, current_state, max_history) ==
    IF Len(history) + 1 > max_history
    THEN Tail(Append(history, current_state))
    ELSE Append(history, current_state)

AdvanceBlock == [op |-> "advance_block", new_block_hash |-> Sha256(<<7>>),
                 transactions_count |-> 1, new_difficulty |-> None]
ValidatorMutators ==
    {[op |-> "update_validator", validator_id |-> <<118, 49>>, public_key |-> <<2>>,
      power |-> 10, active |-> TRUE],
     [op |-> "remove_validator", validator_id |-> <<118, 49>>],
     [op |-> "fail"]}

\* StateManager::export_state
export_state(state, order) == state_serialize(state, order)

\* StateManager::import_state run to its return, the validators of the decoded
\* snapshot met by validate_state in the given order: [sm, err, id]
import_state(sm, data, order) ==
    With(state_deserialize(data), LAMBDA new_state :
        IF ~new_state.ok THEN [sm |-> sm, err |-> "SerializationError", id |-> <<>>]
        ELSE With(validate_state(new_state.val, order), LAMBDA valid :
                 IF valid # StateOk THEN [sm |-> sm, err |-> valid.err, id |-> valid.id]
                 ELSE [sm |-> [sm EXCEPT !.state = new_state.val],
                       err |-> "", id |-> <<>>]))

\* the orders in which the validators of a decoded snapshot can be met
ImportOrders(data) ==
    IF state_deserialize(data).ok
    THEN IterationOrders(state_deserialize(data).val.validators)
    ELSE {<<>>}

\* what is imported: a valid backup, a backup that fails validation (the id
\* of its validator is a character of two bytes, its public key is empty), no
\* state, and the bytes of a backup whose validator id is a byte that is not
\* UTF-8
ImportData ==
    {export_state([ConsensusState_default EXCEPT !.total_transactions = 5], <<>>),
     export_state([ConsensusState_default EXCEPT
                      !.validators = <<195, 169>> :> ValidatorInfo(<<>>, 1, TRUE)],
                  <<<<195, 169>>>>),
     <<>>,
     export_state([ConsensusState_default EXCEPT
                      !.validators = <<255>> :> ValidatorInfo(<<2>>, 1, TRUE)],
                  <<<<255>>>>)}

(***************************************************************************)
(* The state manager with its two locks.  A step is one lock operation of  *)
(* one thread together with what the thread does until its next lock       *)
(* operation; a guard that is dropped before the next lock operation is    *)
(* taken and dropped within the step.  update_state is three steps: the    *)
(* clone of the state under the state lock, the push on the history under  *)
(* the history lock, the mutator under the state lock; rollback is two:    *)
(* the pop under the history lock, and the popped snapshot installed under *)
(* the state lock with the history lock still held; import_state decodes   *)
(* and validates before it takes the state lock.  Other threads run        *)
(* between the steps.                                                      *)
(***************************************************************************)
\* RwLock::read and RwLock::write return when the lock admits the thread
CanRead(lock) == lock.writer = 0
CanWrite(lock) == lock.writer = 0 /\ lock.readers = {}

\* the first lock operation of each call
FirstPc(op) ==
    IF op \in {"get_state", "update_state", "get_statistics", "export_state"}
    THEN "state_read"
    ELSE IF op = "rollback" THEN "history_write"
    ELSE IF op = "get_state_at_height" THEN "history_read"
    ELSE "state_write"

\* the call returns err, formatted with id
Returns(t, err, id) == [IdleThread EXCEPT !.err = err, !.err_id = id]

\* thread t enters a call; import_state decodes and validates before it takes
\* a lock and returns at once when that fails; advance_block, update_validator
\* and remove_validator are update_state calls
CallManager(t, call) ==
    /\ state_manager.threads[t].op = "idle"
    /\ \E order \in IF call.op = "import_state" THEN ImportOrders(call.arg[1])
                    ELSE {<<>>} :
           state_manager' =
               [state_manager EXCEPT
                   !.calls = @ + 1,
                   !.threads[t] =
                       IF call.op = "import_state"
                          /\ import_state(state_manager, call.arg[1], order).err # ""
                       THEN With(import_state(state_manager, call.arg[1], order),
                                 LAMBDA failed : Returns(t, failed.err, failed.id))
                       ELSE [op |-> call.op, pc |-> FirstPc(call.op), arg |-> call.arg,
                             local |-> None, err |-> "", err_id |-> <<>>]]
    /\ UNCHANGED <<db, chain_state, current_block, req, resp, commit_pc, check_pc, miner>>

\* self.state.read(): get_state and export_state copy and return, update_state
\* clones the state and drops the guard, get_statistics keeps the guard
StateRead(t) ==
    /\ state_manager.threads[t].pc = "state_read"
    /\ CanRead(state_manager.state_lock)
    /\ state_manager' =
           With(state_manager.threads[t], LAMBDA me :
               IF me.op = "update_state"
               THEN [state_manager EXCEPT
                        !.threads[t] = [me EXCEPT !.pc = "history_write",
                                                  !.local = Some(state_manager.state)]]
               ELSE IF me.op = "get_statistics"
               THEN [state_manager EXCEPT
                        !.state_lock.readers = @ \cup {t},
                        !.threads[t] = [me EXCEPT !.pc = "history_read"]]
               ELSE [state_manager EXCEPT !.threads[t] = Returns(t, "", <<>>)])
    /\ UNCHANGED <<db, chain_state, current_block, req, resp, commit_pc, check_pc, miner>>

\* self.history.write(): update_state pushes its clone (local keeps what was
\* pushed), trims and drops the guard; rollback pops and keeps the guard, or
\* returns NoHistoryAvailable
HistoryWrite(t) ==
    /\ state_manager.threads[t].pc = "history_write"
    /\ CanWrite(state_manager.history_lock)
    /\ state_manager' =
           With(state_manager.threads[t], LAMBDA me :
               IF me.op = "update_state"
               THEN [state_manager EXCEPT
                        !.history = push_history(@, me.local[1],
                                                 state_manager.max_history),
                        !.threads[t] = [me EXCEPT !.pc = "state_write"]]
               ELSE IF state_manager.history = <<>>
               THEN [state_manager EXCEPT
                        !.threads[t] = Returns(t, "NoHistoryAvailable", <<>>)]
               ELSE [state_manager EXCEPT
                        !.history_lock.writer = t,
                        !.history = SubSeq(@, 1, Len(@) - 1),
                        !.threads[t] =
                            [me EXCEPT !.pc = "state_write",
                                       !.local = Some(state_manager.history[
                                                     Len(state_manager.history)])]])
    /\ UNCHANGED <<db, chain_state, current_block, req, resp, commit_pc, check_pc, miner>>

\* self.history.read(): get_state_at_height searches and returns,
\* get_statistics builds its result and drops both guards
HistoryRead(t) ==
    /\ state_manager.threads[t].pc = "history_read"
    /\ CanRead(state_manager.history_lock)
    /\ state_manager' =
           [state_manager EXCEPT
               !.state_lock.readers = @ \ {t},
               !.threads[t] = Returns(t, "", <<>>)]
    /\ UNCHANGED <<db, chain_state, current_block, req, resp, commit_pc, check_pc, miner>>

\* self.state.write(): update_state applies its mutator, rollback installs the
\* popped snapshot and drops both guards, import_state installs the decoded
\* snapshot
StateWrite(t) ==
    /\ state_manager.threads[t].pc = "state_write"
    /\ CanWrite(state_manager.state_lock)
    /\ state_manager' =
           With(state_manager.threads[t], LAMBDA me :
               IF me.op = "update_state"
               THEN [state_manager EXCEPT
                        !.state = apply_mutator(@, me.arg[1]).state,
                        !.threads[t] =
                            Returns(t, apply_mutator(state_manager.state,
                                                     me.arg[1]).err, <<>>)]
               ELSE IF me.op = "rollback"
               THEN [state_manager EXCEPT
                        !.state = me.local[1],
                        !.history_lock.writer = 0,
                        !.threads[t] = Returns(t, "", <<>>)]
               ELSE [state_manager EXCEPT
                        !.state = state_deserialize(me.arg[1]).val,
                        !.threads[t] = Returns(t, "", <<>>)])
    /\ UNCHANGED <<db, chain_state, current_block, req, resp, commit_pc, check_pc, miner>>

(***************************************************************************)
(* The history of the state manager under calls from two threads.  A run   *)
(* makes its first MaxEarlyCalls calls freely; a run of advance_block      *)
(* calls alone goes on with advance_block calls of thread 1, and once the  *)
(* history is within NearlyFull entries of its bound every thread makes    *)
(* every call again, until MaxStateCalls calls were made.                  *)
(***************************************************************************)
MaxEarlyCalls == 2
NearlyFull == 1

\* every thread makes every call: at the start of a run and with a history
\* that is nearly full
FreeCalls ==
    \/ state_manager.calls < MaxEarlyCalls
    \/ Len(state_manager.history) >= state_manager.max_history - NearlyFull

\* no call is in progress and every call made was an advance_block
OnlyAdvanced ==
    /\ \A t \in StateThreads : state_manager.threads[t].op = "idle"
    /\ state_manager.state.height = state_manager.calls

\* update_state with the closures of advance_block, update_validator and
\* remove_validator and with one that fails, rollback, and import_state of the
\* backups of ImportData and of a backup of the current state
ManagerCalls ==
    {[op |-> "update_state", arg |-> Some(mutator)] :
         mutator \in {AdvanceBlock} \cup ValidatorMutators}
    \cup {[op |-> "rollback", arg |-> None]}
    \cup {[op |-> "import_state", arg |-> Some(data)] :
              data \in ImportData
                  \cup {export_state(state_manager.state, order) :
                            order \in IterationOrders(state_manager.state.validators)}}

NextStateManager ==
    \/ /\ state_manager.calls < MaxStateCalls
       /\ OnlyAdvanced
       /\ CallManager(1, [op |-> "update_state", arg |-> Some(AdvanceBlock)])
    \/ \E t \in StateThreads, call \in ManagerCalls :
           /\ FreeCalls
           /\ state_manager.calls < MaxStateCalls
           /\ CallManager(t, call)
    \/ \E t \in StateThreads : StateRead(t)
    \/ \E t \in StateThreads : HistoryWrite(t)
    \/ \E t \in StateThreads : StateWrite(t)

SpecStateManager == Init /\ [][NextStateManager]_vars

\* the step is the push of thread t's update_state: history.push(current_state)
\* and the trim, under the history lock
Pushes(t) ==
    /\ state_manager.threads[t].op = "update_state"
    /\ state_manager.threads[t].pc = "history_write"
    /\ state_manager'.threads[t].pc = "state_write"

\* C30: after any sequence and interleaving of update_state, advance_block,
\* update_validator, remove_validator, rollback and import_state the history
\* holds at most 100 snapshots; the push of an update appends the snapshot the
\* update took, and when that would exceed the bound the oldest snapshot is
\* the one evicted, the remaining ones keeping their order; no other step adds
\* to the history or reorders it: it stays as it is, or a rollback takes its
\* newest entry off.
C30_HistoryBoundedFifo ==
    /\ [](Len(state_manager.history) <= 100)
    /\ [][\A t \in StateThreads :
              Pushes(t) =>
                  state_manager'.history =
                      IF Len(state_manager.history) < 100
                      THEN Append(state_manager.history,
                                  state_manager.threads[t].local[1])
                      ELSE Append(Tail(state_manager.history),
                                  state_manager.threads[t].local[1])]_vars
    /\ [][(\A t \in StateThreads : ~Pushes(t)) =>
              \/ state_manager'.history = state_manager.history
              \/ /\ state_manager.history # <<>>
                 /\ state_manager'.history =
                        SubSeq(state_manager.history, 1,
                               Len(state_manager.history) - 1)]_vars

\* the history is full, its two oldest snapshots were evicted, and its two
\* newest snapshots are the ones two threads took of the same state in
\* concurrent updates, neither of which has applied its mutator yet
C30_Witness ==
    /\ Len(state_manager.history) = 100
    /\ state_manager.history[1].height = 2
    /\ state_manager.history[100] = state_manager.history[99]
    /\ \A t \in StateThreads :
           /\ state_manager.threads[t].op = "update_state"
           /\ state_manager.threads[t].pc = "state_write"

(***************************************************************************)
(* The state manager on one thread: every call runs from its first line to *)
(* its return before the next call starts.                                 *)
(***************************************************************************)
MaxSeqUpdates == 101
MaxMixedUpdates == 2

\* a rollback that restores the snapshot and leaves it on the history
rollback_keep_entry(sm) ==
    IF sm.history # <<>>
    THEN [sm |-> [sm EXCEPT !.state = sm.history[Len(sm.history)]], err |-> ""]
    ELSE [sm |-> sm, err |-> "NoHistoryAvailable"]

\* StateManager::update_state run to its return: [sm, err]
update_state(sm, mutator) ==
    [sm |-> [sm EXCEPT !.history = push_history(@, sm.state, sm.max_history),
                       !.state = apply_mutator(@, mutator).state],
     err |-> apply_mutator(sm.state, mutator).err]

\* StateManager::rollback run to its return: [sm, err]
rollback(sm) ==
    IF sm.history # <<>>
    THEN [sm |-> [sm EXCEPT !.state = sm.history[Len(sm.history)],
                            !.history = SubSeq(@, 1, Len(@) - 1)],
          err |-> ""]
    ELSE [sm |-> sm, err |-> "NoHistoryAvailable"]

\* resp holds the last call on the manager, its result, the state it found and
\* how many updates and successful rollbacks were made so far
SeqStarted == resp.op \in {"update_state", "rollback", "export_state", "import_state"}
SeqUpdates == IF SeqStarted THEN resp.updates ELSE 0
SeqRollbacks == IF SeqStarted THEN resp.rollbacks ELSE 0

UpdateStateCall(mutator) ==
    /\ SeqUpdates < MaxSeqUpdates
    /\ With(update_state(state_manager, mutator), LAMBDA a :
        /\ state_manager' = a.sm
        /\ resp' = [op |-> "update_state", mutator |-> mutator, err |-> a.err,
                    before |-> state_manager.state,
                    updates |-> SeqUpdates + 1, rollbacks |-> SeqRollbacks])
    /\ UNCHANGED <<db, chain_state, current_block, req, commit_pc, check_pc, miner>>

RollbackCall ==
    /\ With(rollback(state_manager), LAMBDA a :
        /\ state_manager' = a.sm
        /\ resp' = [op |-> "rollback", mutator |-> None, err |-> a.err,
                    before |-> state_manager.state,
                    updates |-> SeqUpdates,
                    rollbacks |-> SeqRollbacks + IF a.err = "" THEN 1 ELSE 0])
    /\ UNCHANGED <<db, chain_state, current_block, req, commit_pc, check_pc, miner>>

SequentialMutators ==
    ValidatorMutators \cup {[op |-> "fail_after_change"]}

\* advance_block at any time; the other mutators in the first updates of a run
NextStateSequential ==
    \/ UpdateStateCall(AdvanceBlock)
    \/ \E mutator \in SequentialMutators :
           SeqUpdates < MaxMixedUpdates /\ UpdateStateCall(mutator)
    \/ RollbackCall

SpecStateSequential == Init /\ [][NextStateSequential]_vars

\* C31: in a sequential run a rollback right after an update_state restores
\* every field of the state that held before the update, whether the mutator
\* succeeded or failed; every update leaves its snapshot as the newest history
\* entry and a failing mutator surfaces its error; a rollback on an empty
\* history fails with NoHistoryAvailable and changes nothing; so while at most
\* 100 updates were made the history holds one entry per update not yet rolled
\* back and exactly as many rollbacks succeed as updates were made.
C31_RollbackRestores ==
    /\ [](SeqStarted /\ resp.updates <= 100 =>
            Len(state_manager.history) = resp.updates - resp.rollbacks)
    /\ [][/\ resp.op = "update_state" /\ resp'.op = "rollback" =>
                /\ resp'.err = ""
                /\ state_manager'.state = resp.before
          /\ resp'.op = "update_state" =>
                /\ state_manager'.history # <<>>
                /\ state_manager'.history[Len(state_manager'.history)] =
                       state_manager.state
                /\ Len(state_manager'.history) =
                       IF Len(state_manager.history) < 100
                       THEN Len(state_manager.history) + 1 ELSE 100
                /\ resp'.err = IF resp'.mutator.op \in {"fail", "fail_after_change"}
                               THEN "UpdateFailed" ELSE ""
          /\ resp'.op = "rollback" =>
                /\ (resp'.err = "") = (state_manager.history # <<>>)
                /\ resp'.err # "" =>
                       /\ resp'.err = "NoHistoryAvailable"
                       /\ state_manager' = state_manager]_vars

\* one hundred updates were rolled back one by one to the initial state, and
\* the next rollback failed
C31_Witness ==
    /\ resp.op = "rollback"
    /\ resp.err = "NoHistoryAvailable"
    /\ resp.updates = 100
    /\ resp.rollbacks = 100
    /\ state_manager.state = ConsensusState_default

(***************************************************************************)
(* Backups of the state manager: export_state writes the snapshot, the     *)
(* manager moves on, import_state reads a backup.                          *)
(***************************************************************************)
MaxBackupUpdates == 3

\* req holds the last backup written: its bytes and the snapshot they were
\* written from
Exported == req.op = "export_state"

ExportStateCall(order) ==
    /\ req' = [op |-> "export_state", data |-> export_state(state_manager.state, order),
               snapshot |-> state_manager.state]
    /\ resp' = [op |-> "export_state", mutator |-> None, err |-> "",
                before |-> state_manager.state,
                updates |-> SeqUpdates, rollbacks |-> SeqRollbacks]
    /\ UNCHANGED <<db, chain_state, current_block, commit_pc, check_pc, miner, state_manager>>

ImportStateCall(data, order) ==
    /\ With(import_state(state_manager, data, order), LAMBDA a :
        /\ state_manager' = a.sm
        /\ resp' = [op |-> "import_state", mutator |-> None, err |-> a.err,
                    err_id |-> a.id,
                    before |-> state_manager.state, data |-> data,
                    updates |-> SeqUpdates, rollbacks |-> SeqRollbacks])
    /\ UNCHANGED <<db, chain_state, current_block, req, commit_pc, check_pc, miner>>

\* mutators that leave a state validate_state rejects
InvalidatingMutators ==
    {[op |-> "update_validator", validator_id |-> <<118, 50>>, public_key |-> <<>>,
      power |-> 1, active |-> FALSE],
     [op |-> "update_validator", validator_id |-> <<>>, public_key |-> <<4>>,
      power |-> 1, active |-> TRUE],
     [op |-> "advance_block", new_block_hash |-> Sha256(<<8>>),
      transactions_count |-> 0, new_difficulty |-> Some(0)]}

\* the backup last written, that backup cut short, and the backups of ImportData
BackupData ==
    ImportData \cup
        IF Exported THEN {req.data, SubSeq(req.data, 1, Len(req.data) - 1)} ELSE {}

\* a second validator that validate_state accepts
SecondValidator ==
    [op |-> "update_validator", validator_id |-> <<118, 51>>, public_key |-> <<3>>,
     power |-> 5, active |-> TRUE]

NextStateBackup ==
    \/ \E mutator \in {AdvanceBlock, SecondValidator}
                          \cup {m \in ValidatorMutators : m.op = "update_validator"}
                          \cup InvalidatingMutators :
           SeqUpdates < MaxBackupUpdates /\ UpdateStateCall(mutator)
    \/ \E order \in IterationOrders(state_manager.state.validators) :
           ExportStateCall(order)
    \/ \E data \in BackupData :
           \E order \in ImportOrders(data) : ImportStateCall(data, order)

SpecStateBackup == Init /\ [][NextStateBackup]_vars

\* what validate_state asks of a snapshot
PassesChecks(snapshot) ==
    /\ snapshot.height > 0 => snapshot.best_block_hash # ZERO_HASH
    /\ snapshot.difficulty_bits # 0
    /\ \A id \in DOMAIN snapshot.validators :
           id # <<>> /\ snapshot.validators[id].public_key # <<>>

\* the error names a check the snapshot fails: the hash and the bits come
\* before the validators, and of the validators any one that fails can be the
\* one reported
RejectedFor(snapshot, err, id) ==
    IF snapshot.height > 0 /\ snapshot.best_block_hash = ZERO_HASH
    THEN err = "Non-genesis block cannot have zero hash" /\ id = <<>>
    ELSE IF snapshot.difficulty_bits = 0
    THEN err = "Difficulty bits cannot be zero" /\ id = <<>>
    ELSE \/ /\ err = "Validator ID cannot be empty"
            /\ id = <<>>
            /\ <<>> \in DOMAIN snapshot.validators
         \/ /\ err = "Validator {} has empty public key"
            /\ id # <<>>
            /\ id \in DOMAIN snapshot.validators
            /\ snapshot.validators[id].public_key = <<>>

MaxLockCalls == 4

LockCalls ==
    {[op |-> "get_state", arg |-> None],
     [op |-> "update_state", arg |-> Some(AdvanceBlock)],
     [op |-> "update_state", arg |-> Some([op |-> "fail"])],
     [op |-> "rollback", arg |-> None],
     [op |-> "get_state_at_height", arg |-> Some(0)],
     [op |-> "get_statistics", arg |-> None],
     [op |-> "export_state", arg |-> None],
     [op |-> "import_state",
      arg |-> Some(export_state([ConsensusState_default EXCEPT
                                    !.total_transactions = 5], <<>>))],
     [op |-> "import_state", arg |-> Some(<<>>)],
     [op |-> "import_state",
      arg |-> Some(export_state([ConsensusState_default EXCEPT
                                    !.validators =
                                        <<255>> :> ValidatorInfo(<<2>>, 1, TRUE)],
                                <<<<255>>>>))]}

NextStateLocks ==
    \/ \E t \in StateThreads, call \in LockCalls :
           state_manager.calls < MaxLockCalls /\ CallManager(t, call)
    \/ \E t \in StateThreads : StateRead(t)
    \/ \E t \in StateThreads : HistoryWrite(t)
    \/ \E t \in StateThreads : HistoryRead(t)
    \/ \E t \in StateThreads : StateWrite(t)

SpecStateLocks == Init /\ [][NextStateLocks]_vars

\* the threads that hold the lock thread t is waiting for
HoldsState(t) ==
    state_manager.state_lock.writer = t \/ t \in state_manager.state_lock.readers
HoldsHistory(t) ==
    state_manager.history_lock.writer = t \/ t \in state_manager.history_lock.readers
WaitsFor(t) ==
    With(state_manager.threads[t].pc, LAMBDA pc :
        IF (pc = "state_read" /\ ~CanRead(state_manager.state_lock))
           \/ (pc = "state_write" /\ ~CanWrite(state_manager.state_lock))
        THEN {u \in StateThreads : HoldsState(u)}
        ELSE IF (pc = "history_read" /\ ~CanRead(state_manager.history_lock))
                \/ (pc = "history_write" /\ ~CanWrite(state_manager.history_lock))
        THEN {u \in StateThreads : HoldsHistory(u)}
        ELSE {})

\* some threads wait for locks that only threads among them hold
WaitForever ==
    \E S \in SUBSET StateThreads :
        /\ S # {}
        /\ \A t \in S : WaitsFor(t) # {} /\ WaitsFor(t) \subseteq S

\* C33: a thread that holds the state lock never goes on to take the history
\* lock (an operation that uses both takes the history lock first), and no
\* interleaving of get_state, update_state, advance_block, rollback,
\* get_state_at_height, get_statistics, export_state and import_state reaches
\* a state in which threads wait for each other forever.
C33_HistoryLockFirstNoDeadlock ==
    /\ \A t \in StateThreads :
           HoldsState(t) =>
               state_manager.threads[t].pc \notin {"history_read", "history_write"}
    /\ ~WaitForever

(***************************************************************************)
(* The ABCI handlers under a driver that extends the chain block by block  *)
(* past the first retarget height.  The clock the commits read runs at one *)
(* pace per run: on target, twice as fast, or backwards.                   *)
(***************************************************************************)
MaxChainHeight == 146
FastPace == TARGET_BLOCK_TIME \div 2
BackwardsPace == 0 - 1
ChainPaces == {TARGET_BLOCK_TIME, FastPace, BackwardsPace}

\* the clock at the commit of the block of a height
ChainClock(pace, height) ==
    IF pace < 0 THEN GENESIS_TIMESTAMP + MaxChainHeight + 1 + pace * height
    ELSE GENESIS_TIMESTAMP + pace * height

\* the pace is the one the block at height 1 was committed at
PaceOfRun(pace, height) ==
    With(get_block_by_height(db, 1), LAMBDA first :
        IF ~first.err /\ first.some # <<>>
        THEN first.some[1].header.timestamp = ChainClock(pace, 1)
        ELSE height = 1 \/ pace = TARGET_BLOCK_TIME)

NextChain ==
    \/ /\ current_block = None
       /\ chain_state.height < MaxChainHeight
       /\ BeginBlock(chain_state.height + 1, GENESIS_TIMESTAMP)
    \/ /\ current_block = None
       /\ chain_state.height = 0
       /\ BeginBlock(DIFFICULTY_ADJUSTMENT_INTERVAL, GENESIS_TIMESTAMP)
    \/ \E pace \in ChainPaces :
           /\ current_block # None
           /\ PaceOfRun(pace, current_block[1].height)
           /\ CommitStore(ChainClock(pace, current_block[1].height), TRUE, ZeroTarget)
    \/ CommitAdvance
    \/ /\ current_block = None
       /\ chain_state.height >= DIFFICULTY_ADJUSTMENT_INTERVAL - 1
       /\ Restart

SpecChain == Init /\ [][NextChain]_vars

\* the tip of the store
TipBlock(d) == get_block(d, get_metadata(d).best_block_hash).some[1]

IsRetargetHeight(height) == height % 144 = 0 /\ height > 0

\* C34: BeginBlock(h) gives the builder the prevailing bits unless h % 144 = 0
\* and h > 0; at such a height the prevailing bits are given as well when
\* fewer than 144 blocks can be read or the controller fails; and every block
\* committed at a height that is not a multiple of 144 carries the header.bits
\* of the block committed before it.
C34_BitsChangeOnlyAtRetarget ==
    [][/\ req'.op = "begin_block" /\ current_block' # None =>
              \/ current_block'[1].bits = chain_state.current_bits
              \/ /\ IsRetargetHeight(req'.height)
                 /\ Len(RecentBlocks(db, req'.height - 144, req'.height)) = 144
                 /\ calculate_next_difficulty(
                        RecentBlocks(db, req'.height - 144, req'.height),
                        chain_state.current_bits).ok
       /\ CommitStored =>
              \/ TipBlock(db').header.height % 144 = 0
              \/ TipBlock(db').header.bits = TipBlock(db).header.bits]_vars

\* the nonces a thread was given so far in its current batch
BatchOf(t) == {t.start_nonce + k : k \in 0..(BatchSize - 1)}
InBatch(t) == t.pc = "batch"

\* C35: within one mining run no nonce is hashed twice, by two workers or by
\* the same worker: every batch a thread draws from the shared counter starts
\* at the counter's value and moves the counter past the batch, the batches of
\* two workers never overlap, and no nonce at or above the counter was hashed.
C35_NonceBatchesDisjoint ==
    /\ [](/\ \A n \in DOMAIN miner.hashed :
                 miner.hashed[n] = 1 /\ n < miner.nonce_counter
          /\ \A v, w \in DOMAIN miner.workers :
                 v # w /\ InBatch(miner.workers[v]) /\ InBatch(miner.workers[w]) =>
                     BatchOf(miner.workers[v]) \cap BatchOf(miner.workers[w]) = {})
    /\ [][\A w \in DOMAIN miner.workers :
              ~InBatch(miner.workers[w]) /\ w \in DOMAIN miner'.workers
                  /\ InBatch(miner'.workers[w]) =>
                  /\ miner'.workers[w].start_nonce = miner.nonce_counter
                  /\ miner'.nonce_counter = miner.nonce_counter + BatchSize
                  /\ BatchOf(miner'.workers[w]) \cap DOMAIN miner.hashed = {}]_vars

\* two workers have hashed every nonce of two batches, each nonce once
C35_Witness ==
    /\ miner.call # None
    /\ miner.call[1].kind = "mine_block_threaded"
    /\ Len(miner.workers) = 2
    /\ miner.workers[1].start_nonce # miner.workers[2].start_nonce
    /\ DOMAIN miner.hashed = 0..(2 * BatchSize - 1)
    /\ \A n \in DOMAIN miner.hashed : miner.hashed[n] = 1

(***************************************************************************)
(* The store with a writer thread that appends blocks with store_block and *)
(* a reader thread in get_metadata, which reads the three metadata keys    *)
(* one after the other.  resp holds the reader's call, req the writer's.   *)
(***************************************************************************)
MaxStoredBlocks == 6

\* the reader is inside get_metadata, about to read the key the pc names
ReadingMetadata(pc) == resp.op = "get_metadata" /\ resp.pc = pc

\* get_metadata: the read of META_BEST_BLOCK
GetMetadataBestBlock ==
    /\ IF resp.op = "get_metadata" THEN resp.pc = "returned" ELSE TRUE
    /\ resp' = [op |-> "get_metadata", pc |-> "height",
                best_block_hash |-> get_metadata(db).best_block_hash,
                height |-> 0, genesis_hash |-> ZERO_HASH]
    /\ UNCHANGED <<db, chain_state, current_block, req, commit_pc, check_pc, miner, state_manager>>

\* get_metadata: the read of META_HEIGHT
GetMetadataHeight ==
    /\ ReadingMetadata("height")
    /\ resp' = [resp EXCEPT !.pc = "genesis_hash", !.height = get_metadata(db).height]
    /\ UNCHANGED <<db, chain_state, current_block, req, commit_pc, check_pc, miner, state_manager>>

\* get_metadata: the read of META_GENESIS_HASH, and the return
GetMetadataGenesisHash ==
    /\ ReadingMetadata("genesis_hash")
    /\ resp' = [resp EXCEPT !.pc = "returned",
                            !.genesis_hash = get_metadata(db).genesis_hash]
    /\ UNCHANGED <<db, chain_state, current_block, req, commit_pc, check_pc, miner, state_manager>>

\* store_block of the next block on the tip, its batch written at once
StoreNextBlock(now) ==
    /\ get_metadata(db).height < MaxStoredBlocks
    /\ With(Block_new(get_metadata(db).best_block_hash,
                      <<create_coinbase(get_metadata(db).height + 1, BENEFICIARY)>>,
                      GENESIS_BITS, get_metadata(db).height + 1, now),
            LAMBDA block :
        /\ db' = store_block(db, block, TRUE).db
        /\ req' = [op |-> "store_block", height |-> block.header.height])
    /\ UNCHANGED <<chain_state, current_block, resp, commit_pc, check_pc, miner, state_manager>>

NextMetadata ==
    \/ GetMetadataBestBlock
    \/ GetMetadataHeight
    \/ GetMetadataGenesisHash
    \/ \E now \in Timestamps : StoreNextBlock(now)

SpecMetadata == Init /\ [][NextMetadata]_vars

\* C36: the pair (best_block_hash, height) get_metadata returns is the hash of
\* a stored block and the height of that block, also when store_block moves
\* the tip while get_metadata runs.
C36_MetadataPairConsistent ==
    ReadingMetadata("returned") =>
        With(get_block(db, resp.best_block_hash), LAMBDA b :
            /\ ~b.err
            /\ b.some # <<>>
            /\ b.some[1].header.height = resp.height)

(***************************************************************************)
(* The ABCI handlers under a driver that delivers, into one builder,       *)
(* transactions that reference the same outpoint: two transactions with    *)
(* the same input, one transaction twice, one transaction with the same    *)
(* input twice.                                                            *)
(***************************************************************************)
MaxSpendBlocks == 3
MaxSpendTxs == 2

SpendInputs(d) ==
    UNION {{<<TxInput([txid |-> t, vout |-> 0], <<>>)>>,
            <<TxInput([txid |-> t, vout |-> 0], <<>>),
              TxInput([txid |-> t, vout |-> 0], <<>>)>>} : t \in DOMAIN d.tx_index}
DoubleSpendTxs(d) ==
    {Transaction(i, <<TxOutput(U64(0, value), ZERO_HASH, <<>>)>>, 0) :
         i \in SpendInputs(d), value \in {1, 2}}

NextDoubleSpend ==
    \/ \E height \in Heights :
           /\ StoredBlocks < MaxSpendBlocks
           /\ current_block = None
           /\ BeginBlock(height, GENESIS_TIMESTAMP)
    \/ \E tx \in DoubleSpendTxs(db) :
           /\ current_block # None
           /\ Len(current_block[1].transactions) <= MaxSpendTxs
           /\ DeliverTx(tx_serialize(tx))
    \/ \E now \in Timestamps : current_block # None /\ CommitStore(now, TRUE, ZeroTarget)
    \/ CommitAdvance

SpecDoubleSpend == Init /\ [][NextDoubleSpend]_vars

\* the outpoints the inputs of the non-coinbase transactions of a list reference
SpentBy(transactions) ==
    UNION {{transactions[k].inputs[i].previous_output :
                i \in 1..Len(transactions[k].inputs)} :
           k \in {n \in 1..Len(transactions) : ~is_coinbase(transactions[n])}}
\* a transaction references one outpoint in two of its inputs
SpendsTwice(tx) ==
    \E i, j \in 1..Len(tx.inputs) :
        i < j /\ tx.inputs[i].previous_output = tx.inputs[j].previous_output
\* two inputs of the non-coinbase transactions of a list reference one outpoint
ListSpendsTwice(transactions) ==
    \/ \E k \in 1..Len(transactions) :
           ~is_coinbase(transactions[k]) /\ SpendsTwice(transactions[k])
    \/ \E k, l \in 1..Len(transactions) :
           /\ k < l
           /\ ~is_coinbase(transactions[k])
           /\ ~is_coinbase(transactions[l])
           /\ SpentBy(<<transactions[k]>>) \cap SpentBy(<<transactions[l]>>) # {}

\* C37: no committed block spends an outpoint twice: in a builder, a DeliverTx
\* whose transaction references an outpoint that an input of an earlier
\* accepted transaction of the builder references, or references one outpoint
\* in two of its own inputs, is rejected and leaves the builder as it was.
C37_NoDoubleSpendInBlock ==
    /\ [](\A B \in CommittedBlocks : ~ListSpendsTwice(B.transactions))
    /\ [][/\ req'.op = "deliver_tx"
          /\ current_block # None
          /\ tx_deserialize(req'.tx).ok
          /\ \/ SpendsTwice(tx_deserialize(req'.tx).val)
             \/ SpentBy(<<tx_deserialize(req'.tx).val>>)
                    \cap SpentBy(current_block[1].transactions) # {}
          => resp'.code # 0 /\ current_block' = current_block]_vars

\* C38: in every reachable state ChainState mirrors the store:
\* ChainState.height = metadata.height, ChainState.best_block_hash =
\* metadata.best_block_hash and ChainState.current_bits is the header.bits of
\* the block with that hash, also right after SedlyApp is constructed again
\* over a store with committed blocks, blocks committed after a retarget
\* included.
C38_ChainStateMirrorsStore ==
    /\ chain_state.height = get_metadata(db).height
    /\ chain_state.best_block_hash = get_metadata(db).best_block_hash
    /\ chain_state.current_bits = TipBlock(db).header.bits

\* thread t applies the mutator of its update_state call in this step
AppliesMutator(t) ==
    /\ state_manager.threads[t].op = "update_state"
    /\ state_manager.threads[t].pc = "state_write"
    /\ state_manager'.threads[t].op = "idle"

\* C39: when several threads call update_state concurrently, the history entry
\* an update pushed is the state that holds immediately before its mutator is
\* applied: no other thread's mutation comes between the snapshot and the
\* mutation of one update.
C39_SnapshotIsStateBeforeMutation ==
    [][\A t \in StateThreads :
           AppliesMutator(t) =>
               state_manager.threads[t].local[1] = state_manager.state]_vars

====
